---- MODULE Spec2Model ----
(***************************************************************************)
(* cloudnest-server: the node hierarchy, sharing, public-link and star     *)
(* handlers, modelled as request handlers running against the shared      *)
(* repository tables.  Every handler is cut at its awaits: one action per *)
(* repository (or object-store) call, together with the synchronous code  *)
(* that follows the call up to the next await.                            *)
(***************************************************************************)
EXTENDS Integers, Sequences, FiniteSets, TLC

\* ------------------------------------------------------------------ bounds
MaxNodes == 3
MaxTime == 2
MaxStars == 2
MaxLinks == 2
MaxPerms == 2
MaxPage == 3
MaxSignals == 3

\* ------------------------------------------------------------- vocabulary
Users == {"u1", "u2"}
\* req.user?.id of a request that carries no identity
NoUser == "none"
Requesters == Users \cup {NoUser}
\* null parent_id / null deleted_at / a missing id
Null == 0
\* an id that no row of the nodes table carries
Ghost == MaxNodes + 1
Procs == {1, 2}
NoName == <<>>
NoPath == <<>>
Suffix == <<"_", "c", "o", "p", "y">>

VARIABLES nodes, perms, links, stars, objects, uploads, now, pr, server

vars == <<nodes, perms, links, stars, objects, uploads, now, pr, server>>

\* ----------------------------------------------------------------- server
\* the signals the process handles
Signals == {"SIGINT", "SIGTERM"}

\* app.listen has returned and let isShuttingDown = false: nothing received,
\* server.close not yet called, the process running
Listening ==
  [isShuttingDown |-> FALSE, closeCalls |-> 0, received |-> <<>>, exited |-> FALSE]

\* process.on("uncaughtException"): the error is logged and process.exit(1)
\* ends the process; server.close is not called
uncaughtException == [server EXCEPT !.exited = TRUE]

\* gracefulShutdown without the flag being set
gracefulShutdown_unflagged(sig) ==
  /\ ~server.exited
  /\ Len(server.received) < MaxSignals
  /\ server' = [server EXCEPT !.received = Append(@, sig), !.closeCalls = @ + 1]
  /\ UNCHANGED <<nodes, perms, links, stars, objects, uploads, now, pr>>

\* process.on(sig, gracefulShutdown): the handler runs to its end before any
\* other callback
gracefulShutdown(sig) ==
  /\ ~server.exited
  /\ Len(server.received) < MaxSignals
  /\ IF server.isShuttingDown
       THEN server' = [server EXCEPT !.received = Append(@, sig)]
       ELSE server' = [server EXCEPT !.received = Append(@, sig),
                                     !.isShuttingDown = TRUE,
                                     !.closeCalls = @ + 1]
  /\ UNCHANGED <<nodes, perms, links, stars, objects, uploads, now, pr>>

\* -------------------------------------------------------------- processes
NoFile == [originalname |-> NoName, size |-> 0, mimetype |-> ""]

Idle ==
  [op |-> "", pc |-> "idle", user |-> NoUser, id |-> Null, target |-> Null,
   name |-> NoName, res |-> "", ts |-> Null, snap |-> {}, out |-> Null,
   file |-> NoFile, key |-> NoPath, body |-> <<>>]

\* no request in flight on this connection
Ready(p) == pr[p].pc = "idle" /\ ~server.exited

\* a request enters: the locals of the handler
Req(o, u, i, t, n) ==
  [Idle EXCEPT !.op = o, !.user = u, !.id = i, !.target = t, !.name = n]

\* the handler answers (a response, or an ApiError through asyncHandler); its
\* call stack is gone, the request and the answer stay on record
Reply(r, code) ==
  [r EXCEPT !.pc = "done", !.res = code, !.ts = Null, !.snap = {},
            !.name = NoName, !.file = NoFile, !.key = NoPath, !.body = <<>>]

\* the handler goes on to its next await
Goto(r, label) == [r EXCEPT !.pc = label]

At(p, o, label) == pr[p].op = o /\ pr[p].pc = label /\ ~server.exited

Set(p, r) == pr' = [pr EXCEPT ![p] = r]

\* ------------------------------------------------------------- repository
Ids == 1..Len(nodes)

\* .from("nodes").insert([...]): the row as stored, with the table defaults
\* (columns the handler does not supply are null)
NewNode(u, t, n, par, key, sz, mt) ==
  [owner_id |-> u, type |-> t, name |-> n, parent_id |-> par,
   deleted_at |-> Null, updated_at |-> Null, path |-> key,
   size_bytes |-> sz, mime_type |-> mt]

\* .from("nodes").select(...).eq("id", i).single()
Found(i) == i \in 1..Len(nodes)

\* .from("nodes").update(patch).eq("id", i)
UpdateNode(i, field, v) == [nodes EXCEPT ![i] = [@ EXCEPT ![field] = v]]

\* name.trim()
RECURSIVE TrimLeft(_)
TrimLeft(s) ==
  IF s # <<>> /\ Head(s) = " " THEN TrimLeft(Tail(s)) ELSE s

RECURSIVE TrimRight(_)
TrimRight(s) ==
  IF s # <<>> /\ s[Len(s)] = " " THEN TrimRight(SubSeq(s, 1, Len(s) - 1)) ELSE s

Trim(s) == TrimRight(TrimLeft(s))

\* !name || name.trim() === ""
BlankName(n) == n = NoName \/ Trim(n) = <<>>

\* the response has gone out (res.json / the error middleware): the request ends
finish(p) ==
  /\ pr[p].pc = "done"
  /\ ~server.exited
  /\ Set(p, Idle)
  /\ UNCHANGED <<nodes, perms, links, stars, objects, now, uploads, server>>

\* ------------------------------------------------------------------ clock
\* new Date(): time passes between two readings, or does not
Tick ==
  /\ now < MaxTime
  /\ now' = now + 1
  /\ UNCHANGED <<nodes, perms, links, stars, objects, pr, uploads, server>>

\* ----------------------------------------------------------- createFolder
createFolder(p, u, n, par) ==
  /\ Ready(p)
  /\ Len(nodes) < MaxNodes
  /\ LET r == Req("createFolder", u, Null, par, n) IN
     IF u = NoUser THEN
       /\ Set(p, Reply(r, "UNAUTHORIZED"))
       /\ UNCHANGED nodes
     ELSE IF BlankName(n) THEN
       /\ Set(p, Reply(r, "VALIDATION_ERROR"))
       /\ UNCHANGED nodes
     ELSE
       /\ nodes' = Append(nodes, NewNode(u, "folder", Trim(n), par, NoPath, 0, ""))
       /\ Set(p, [Reply(r, "OK") EXCEPT !.out = Len(nodes) + 1])
  /\ UNCHANGED <<perms, links, stars, objects, now, uploads, server>>


\* ------------------------------------------------------------- uploadFile
\* `${userId}/${Date.now()}_${file.originalname}`
ObjectKey(u, t, n) == <<u, t, n>>

\* s3.upload(params).promise()
uploadFile_put(p, u, f) ==
  /\ Ready(p)
  /\ Len(nodes) < MaxNodes
  /\ LET r == [Req("uploadFile", u, Null, Null, NoName) EXCEPT !.file = f] IN
     IF f = NoFile THEN
       /\ Set(p, Reply(r, "FILE_MISSING"))
       /\ UNCHANGED objects
     ELSE
       /\ objects' = objects \cup {ObjectKey(u, now, f.originalname)}
       /\ Set(p, Goto([r EXCEPT !.key = ObjectKey(u, now, f.originalname)], "insert"))
  /\ UNCHANGED <<nodes, perms, links, stars, now, uploads, server>>

\* supabase.from("nodes").insert([...])
uploadFile_insert(p) ==
  /\ At(p, "uploadFile", "insert")
  /\ Len(nodes) < MaxNodes
  /\ LET r == pr[p] IN
     /\ nodes' = Append(nodes, NewNode(r.user, "file", r.file.originalname, Null,
                                       r.key, r.file.size, r.file.mimetype))
     /\ Set(p, [Reply(r, "OK") EXCEPT !.out = Len(nodes) + 1])
  /\ UNCHANGED <<perms, links, stars, objects, now, uploads, server>>

\* s3.upload(params).promise() rejects: the handler ends there, asyncHandler
\* hands the rejection to next
uploadFile_putRejected(p, u, f) ==
  /\ Ready(p)
  /\ f # NoFile
  /\ Set(p, Reply([Req("uploadFile", u, Null, Null, NoName) EXCEPT !.file = f],
                  "UPLOAD_REJECTED"))
  /\ UNCHANGED <<nodes, perms, links, stars, objects, now, uploads, server>>

\* the failed insert with the stored object taken back
uploadFile_insertFailed_compensating(p) ==
  /\ At(p, "uploadFile", "insert")
  /\ LET r == pr[p] IN
     /\ objects' = objects \ {r.key}
     /\ Set(p, [Reply(r, "DB_INSERT_FAILED") EXCEPT !.key = r.key])
  /\ UNCHANGED <<nodes, perms, links, stars, now, uploads, server>>

\* the insert returns an error: if (dbError) throw DB_INSERT_FAILED
uploadFile_insertFailed(p) ==
  /\ At(p, "uploadFile", "insert")
  /\ LET r == pr[p] IN
     Set(p, [Reply(r, "DB_INSERT_FAILED") EXCEPT !.key = r.key])
  /\ UNCHANGED <<nodes, perms, links, stars, objects, now, uploads, server>>

\* --------------------------------------------------------------- copyFile
copyFile_fetch(p, u, i, par) ==
  /\ Ready(p)
  /\ Len(nodes) < MaxNodes
  /\ LET r == Req("copyFile", u, i, par, NoName) IN
     IF u = NoUser THEN Set(p, Reply(r, "UNAUTHORIZED"))
     ELSE IF ~Found(i) THEN Set(p, Reply(r, "FILE_NOT_FOUND"))
     ELSE IF nodes[i].type # "file" THEN Set(p, Reply(r, "INVALID_NODE_TYPE"))
     ELSE IF nodes[i].owner_id # u THEN Set(p, Reply(r, "ACCESS_DENIED"))
     ELSE Set(p, Goto([r EXCEPT !.snap = {nodes[i]}], "insert"))
  /\ UNCHANGED <<nodes, perms, links, stars, objects, now, uploads, server>>

\* parent_id || file.parent_id
OrElse(a, b) == IF a # Null THEN a ELSE b

\* copyFile_insert without the default to the source's parent
copyFile_insert_noDefault(p) ==
  /\ At(p, "copyFile", "insert")
  /\ Len(nodes) < MaxNodes
  /\ LET r == pr[p]
         file == CHOOSE f \in r.snap : TRUE
     IN
     /\ nodes' = Append(nodes, NewNode(r.user, "file", file.name \o Suffix,
                                       r.target, file.path,
                                       file.size_bytes, file.mime_type))
     /\ Set(p, [Reply(r, "OK") EXCEPT !.out = Len(nodes) + 1])
  /\ UNCHANGED <<perms, links, stars, objects, now, uploads, server>>

copyFile_insert(p) ==
  /\ At(p, "copyFile", "insert")
  /\ Len(nodes) < MaxNodes
  /\ LET r == pr[p]
         file == CHOOSE f \in r.snap : TRUE
     IN
     /\ nodes' = Append(nodes, NewNode(r.user, "file", file.name \o Suffix,
                                       OrElse(r.target, file.parent_id), file.path,
                                       file.size_bytes, file.mime_type))
     /\ Set(p, [Reply(r, "OK") EXCEPT !.out = Len(nodes) + 1])
  /\ UNCHANGED <<perms, links, stars, objects, now, uploads, server>>

\* --------------------------------------------------------------- moveFile
moveFile_fetchFile(p, u, i, t) ==
  /\ Ready(p)
  /\ LET r == Req("moveFile", u, i, t, NoName) IN
     IF u = NoUser THEN Set(p, Reply(r, "UNAUTHORIZED"))
     ELSE IF t = Null THEN Set(p, Reply(r, "VALIDATION_ERROR"))
     ELSE IF ~Found(i) THEN Set(p, Reply(r, "FILE_NOT_FOUND"))
     ELSE IF nodes[i].type # "file" THEN Set(p, Reply(r, "INVALID_NODE_TYPE"))
     ELSE IF nodes[i].owner_id # u THEN Set(p, Reply(r, "ACCESS_DENIED"))
     ELSE Set(p, Goto(r, "fetchFolder"))
  /\ UNCHANGED <<nodes, perms, links, stars, objects, now, uploads, server>>

\* moveFile_fetchFolder without the comparison of the target's owner with the requester
moveFile_fetchFolder_anyOwner(p) ==
  /\ At(p, "moveFile", "fetchFolder")
  /\ LET r == pr[p] IN
     IF ~Found(r.target) THEN Set(p, Reply(r, "FOLDER_NOT_FOUND"))
     ELSE IF nodes[r.target].type # "folder" THEN Set(p, Reply(r, "INVALID_TARGET"))
     ELSE Set(p, Goto([r EXCEPT !.ts = now], "update"))
  /\ UNCHANGED <<nodes, perms, links, stars, objects, now, uploads, server>>

moveFile_fetchFolder(p) ==
  /\ At(p, "moveFile", "fetchFolder")
  /\ LET r == pr[p] IN
     IF ~Found(r.target) THEN Set(p, Reply(r, "FOLDER_NOT_FOUND"))
     ELSE IF nodes[r.target].type # "folder" THEN Set(p, Reply(r, "INVALID_TARGET"))
     ELSE IF nodes[r.target].owner_id # r.user THEN Set(p, Reply(r, "ACCESS_DENIED"))
     ELSE Set(p, Goto([r EXCEPT !.ts = now], "update"))
  /\ UNCHANGED <<nodes, perms, links, stars, objects, now, uploads, server>>

\* a move that also clears the name
MoveRow_unnamed(i, t, ts) ==
  [nodes EXCEPT ![i] = [@ EXCEPT !.parent_id = t, !.updated_at = ts,
                                 !.name = NoName]]

\* .update({ parent_id: target_folder_id, updated_at: new Date().toISOString() })
MoveRow(i, t, ts) ==
  [nodes EXCEPT ![i] = [@ EXCEPT !.parent_id = t, !.updated_at = ts]]

moveFile_update(p) ==
  /\ At(p, "moveFile", "update")
  /\ nodes' = MoveRow(pr[p].id, pr[p].target, pr[p].ts)
  /\ Set(p, Reply(pr[p], "OK"))
  /\ UNCHANGED <<perms, links, stars, objects, now, uploads, server>>

\* ------------------------------------------------------------- moveFolder
moveFolder_fetchFolder(p, u, i, t) ==
  /\ Ready(p)
  /\ LET r == Req("moveFolder", u, i, t, NoName) IN
     IF u = NoUser THEN Set(p, Reply(r, "UNAUTHORIZED"))
     ELSE IF t = Null THEN Set(p, Reply(r, "VALIDATION_ERROR"))
     ELSE IF ~Found(i) THEN Set(p, Reply(r, "FOLDER_NOT_FOUND"))
     ELSE IF nodes[i].type # "folder" THEN Set(p, Reply(r, "INVALID_NODE_TYPE"))
     ELSE IF nodes[i].owner_id # u THEN Set(p, Reply(r, "ACCESS_DENIED"))
     ELSE Set(p, Goto(r, "fetchTarget"))
  /\ UNCHANGED <<nodes, perms, links, stars, objects, now, uploads, server>>

moveFolder_fetchTarget(p) ==
  /\ At(p, "moveFolder", "fetchTarget")
  /\ LET r == pr[p] IN
     IF ~Found(r.target) THEN Set(p, Reply(r, "TARGET_FOLDER_NOT_FOUND"))
     ELSE IF nodes[r.target].type # "folder" THEN Set(p, Reply(r, "INVALID_TARGET"))
     ELSE IF nodes[r.target].owner_id # r.user THEN Set(p, Reply(r, "ACCESS_DENIED"))
     ELSE IF r.id = r.target THEN Set(p, Reply(r, "INVALID_MOVE"))
     ELSE Set(p, Goto(r, "fetchChildren"))
  /\ UNCHANGED <<nodes, perms, links, stars, objects, now, uploads, server>>

\* .from("nodes").select("id, parent_id").eq("owner_id", userId)
ChildNodes(u) ==
  {[id |-> i, parent_id |-> nodes[i].parent_id] : i \in {j \in Ids : nodes[j].owner_id = u}}

\* a check that looks at the folder's own children only
checkCircular_childrenOnly(childNodes, folderId, targetId, depth) ==
  IF \E n \in childNodes : n.parent_id = folderId /\ n.id = targetId
    THEN {"true"} ELSE {"false"}

\* checkCircular(folderId, targetId) over childNodes: what the recursion can
\* return.  The rows come in no stated order, and the walk answers with the
\* first child that says true; on a walk that never ends the call stack
\* overflows ("overflow": a RangeError, passed by asyncHandler to next).
RECURSIVE checkCircular(_, _, _, _)
checkCircular(childNodes, folderId, targetId, depth) ==
  IF depth > Cardinality(childNodes) THEN {"overflow"}
  ELSE
    LET kids == {n \in childNodes : n.parent_id = folderId}
        sub(n) == IF n.id = targetId THEN {"true"}
                  ELSE checkCircular(childNodes, n.id, targetId, depth + 1)
        all == UNION {sub(n) : n \in kids}
    IN  (all \cap {"true", "overflow"})
          \cup (IF \A n \in kids : "false" \in sub(n) THEN {"false"} ELSE {})

moveFolder_fetchChildren(p) ==
  /\ At(p, "moveFolder", "fetchChildren")
  /\ LET r == pr[p] IN
     \E c \in checkCircular(ChildNodes(r.user), r.id, r.target, 0) :
       IF c = "true" THEN Set(p, Reply(r, "INVALID_MOVE"))
       ELSE IF c = "overflow" THEN Set(p, Reply(r, "RangeError"))
       ELSE Set(p, Goto([r EXCEPT !.ts = now], "update"))
  /\ UNCHANGED <<nodes, perms, links, stars, objects, now, uploads, server>>

\* the select of the rows returns an error: if (!childError && childNodes) is
\* false, the cycle check is skipped and the handler goes on to its update
moveFolder_fetchChildrenFailed(p) ==
  /\ At(p, "moveFolder", "fetchChildren")
  /\ Set(p, Goto([pr[p] EXCEPT !.ts = now, !.body = <<"childError">>], "update"))
  /\ UNCHANGED <<nodes, perms, links, stars, objects, now, uploads, server>>

moveFolder_update(p) ==
  /\ At(p, "moveFolder", "update")
  /\ nodes' = MoveRow(pr[p].id, pr[p].target, pr[p].ts)
  /\ Set(p, Reply(pr[p], "OK"))
  /\ UNCHANGED <<perms, links, stars, objects, now, uploads, server>>

\* --------------------------------------------------------- softDeleteFile
\* softDeleteFile_fetch without the test of deleted_at
softDeleteFile_fetch_unguarded(p, u, i) ==
  /\ Ready(p)
  /\ LET r == Req("softDeleteFile", u, i, Null, NoName) IN
     IF u = NoUser THEN Set(p, Reply(r, "UNAUTHORIZED"))
     ELSE IF ~Found(i) THEN Set(p, Reply(r, "FILE_NOT_FOUND"))
     ELSE IF nodes[i].type # "file" THEN Set(p, Reply(r, "INVALID_NODE_TYPE"))
     ELSE IF nodes[i].owner_id # u THEN Set(p, Reply(r, "ACCESS_DENIED"))
     ELSE Set(p, Goto([r EXCEPT !.ts = now], "update"))
  /\ UNCHANGED <<nodes, perms, links, stars, objects, now, uploads, server>>

softDeleteFile_fetch(p, u, i) ==
  /\ Ready(p)
  /\ LET r == Req("softDeleteFile", u, i, Null, NoName) IN
     IF u = NoUser THEN Set(p, Reply(r, "UNAUTHORIZED"))
     ELSE IF ~Found(i) THEN Set(p, Reply(r, "FILE_NOT_FOUND"))
     ELSE IF nodes[i].type # "file" THEN Set(p, Reply(r, "INVALID_NODE_TYPE"))
     ELSE IF nodes[i].owner_id # u THEN Set(p, Reply(r, "ACCESS_DENIED"))
     ELSE IF nodes[i].deleted_at # Null THEN Set(p, Reply(r, "ALREADY_DELETED"))
     ELSE Set(p, Goto([r EXCEPT !.ts = now], "update"))
  /\ UNCHANGED <<nodes, perms, links, stars, objects, now, uploads, server>>

\* softDeleteFile_update that also removes the stored object
softDeleteFile_update_purging(p) ==
  /\ At(p, "softDeleteFile", "update")
  /\ nodes' = UpdateNode(pr[p].id, "deleted_at", pr[p].ts)
  /\ objects' = objects \ {nodes[pr[p].id].path}
  /\ Set(p, Reply(pr[p], "OK"))
  /\ UNCHANGED <<perms, links, stars, now, uploads, server>>

\* .update({ deleted_at: new Date().toISOString() }).eq("id", id)
softDeleteFile_update(p) ==
  /\ At(p, "softDeleteFile", "update")
  /\ nodes' = UpdateNode(pr[p].id, "deleted_at", pr[p].ts)
  /\ Set(p, Reply(pr[p], "OK"))
  /\ UNCHANGED <<perms, links, stars, objects, now, uploads, server>>

\* ------------------------------------------------------- softDeleteFolder
softDeleteFolder_fetch(p, u, i) ==
  /\ Ready(p)
  /\ LET r == Req("softDeleteFolder", u, i, Null, NoName) IN
     IF u = NoUser THEN Set(p, Reply(r, "UNAUTHORIZED"))
     ELSE IF ~Found(i) THEN Set(p, Reply(r, "FOLDER_NOT_FOUND"))
     ELSE IF nodes[i].type # "folder" THEN Set(p, Reply(r, "INVALID_NODE_TYPE"))
     ELSE IF nodes[i].owner_id # u THEN Set(p, Reply(r, "ACCESS_DENIED"))
     ELSE IF nodes[i].deleted_at # Null THEN Set(p, Reply(r, "ALREADY_DELETED"))
     ELSE Set(p, Goto([r EXCEPT !.ts = now], "updateFolder"))
  /\ UNCHANGED <<nodes, perms, links, stars, objects, now, uploads, server>>

\* .update({ deleted_at: deletedAt }).eq("id", id)
softDeleteFolder_updateFolder(p) ==
  /\ At(p, "softDeleteFolder", "updateFolder")
  /\ nodes' = UpdateNode(pr[p].id, "deleted_at", pr[p].ts)
  /\ Set(p, Goto(pr[p], "updateChildren"))
  /\ UNCHANGED <<perms, links, stars, objects, now, uploads, server>>

\* a cascade without the filter on owner_id
StampChildren_anyOwner(u, i, ts) ==
  [j \in Ids |->
     IF /\ nodes[j].parent_id = i
        /\ nodes[j].deleted_at = Null
     THEN [nodes[j] EXCEPT !.deleted_at = ts]
     ELSE nodes[j]]

\* .update({ deleted_at: deletedAt })
\*   .eq("owner_id", userId).eq("parent_id", id).is("deleted_at", null)
StampChildren(u, i, ts) ==
  [j \in Ids |->
     IF /\ nodes[j].owner_id = u
        /\ nodes[j].parent_id = i
        /\ nodes[j].deleted_at = Null
     THEN [nodes[j] EXCEPT !.deleted_at = ts]
     ELSE nodes[j]]

\* a cascade that reads the clock again for the children
softDeleteFolder_updateChildren_restamped(p) ==
  /\ At(p, "softDeleteFolder", "updateChildren")
  /\ nodes' = StampChildren(pr[p].user, pr[p].id, now)
  /\ Set(p, Reply(pr[p], "OK"))
  /\ UNCHANGED <<perms, links, stars, objects, now, uploads, server>>

softDeleteFolder_updateChildren(p) ==
  /\ At(p, "softDeleteFolder", "updateChildren")
  /\ nodes' = StampChildren(pr[p].user, pr[p].id, pr[p].ts)
  /\ Set(p, Reply(pr[p], "OK"))
  /\ UNCHANGED <<perms, links, stars, objects, now, uploads, server>>

\* ------------------------------------------------------------------ stars
\* rows of the stars table for (user_id, file_id); a deleted row keeps its id
StarRows(u, f) ==
  {k \in 1..Len(stars) :
     stars[k].live /\ stars[k].user_id = u /\ stars[k].file_id = f}

\* .single(): the row when exactly one row matches, null (with an error the
\* caller may or may not read) when none or several match
Single(rows) == IF Cardinality(rows) = 1 THEN rows ELSE {}

\* verify the file exists and is not deleted (shared by star and unstar)
StarFetch(p, o, u, i) ==
  /\ Ready(p)
  /\ LET r == Req(o, u, i, Null, NoName) IN
     IF u = NoUser THEN Set(p, Reply(r, "UNAUTHORIZED"))
     ELSE IF ~Found(i) \/ nodes[i].deleted_at # Null
       THEN Set(p, Reply(r, "FILE_NOT_FOUND"))
     ELSE IF nodes[i].type # "file" THEN Set(p, Reply(r, "INVALID_NODE_TYPE"))
     ELSE Set(p, Goto(r, "lookup"))
  /\ UNCHANGED <<nodes, perms, links, stars, objects, now, uploads, server>>

markFileAsStarred_fetch(p, u, i) == StarFetch(p, "markFileAsStarred", u, i)

\* a lookup that never finds the star
markFileAsStarred_lookup_blind(p) ==
  /\ At(p, "markFileAsStarred", "lookup")
  /\ Set(p, Goto(pr[p], "insert"))
  /\ UNCHANGED <<nodes, perms, links, stars, objects, now, uploads, server>>

\* check if already starred
markFileAsStarred_lookup(p) ==
  /\ At(p, "markFileAsStarred", "lookup")
  /\ LET existingStar == Single(StarRows(pr[p].user, pr[p].id)) IN
     IF existingStar # {} THEN Set(p, Reply(pr[p], "OK"))
     ELSE Set(p, Goto(pr[p], "insert"))
  /\ UNCHANGED <<nodes, perms, links, stars, objects, now, uploads, server>>

\* insert star record
markFileAsStarred_insert(p) ==
  /\ At(p, "markFileAsStarred", "insert")
  /\ Len(stars) < MaxStars
  /\ stars' = Append(stars, [user_id |-> pr[p].user, file_id |-> pr[p].id,
                            live |-> TRUE])
  /\ Set(p, [Reply(pr[p], "CREATED") EXCEPT !.out = Len(stars) + 1])
  /\ UNCHANGED <<nodes, perms, links, objects, now, uploads, server>>

removeFileFromStarred_fetch(p, u, i) ==
  StarFetch(p, "removeFileFromStarred", u, i)

\* check if the file is starred by this user
removeFileFromStarred_lookup(p) ==
  /\ At(p, "removeFileFromStarred", "lookup")
  /\ LET existingStar == Single(StarRows(pr[p].user, pr[p].id)) IN
     IF existingStar = {} THEN Set(p, Reply(pr[p], "OK"))
     ELSE Set(p, Goto([pr[p] EXCEPT !.snap = existingStar], "delete"))
  /\ UNCHANGED <<nodes, perms, links, stars, objects, now, uploads, server>>

\* .from("stars").delete().eq("id", existingStar.id)
removeFileFromStarred_delete(p) ==
  /\ At(p, "removeFileFromStarred", "delete")
  /\ stars' = [k \in 1..Len(stars) |->
                 IF k \in pr[p].snap THEN [stars[k] EXCEPT !.live = FALSE]
                 ELSE stars[k]]
  /\ Set(p, Reply(pr[p], "OK"))
  /\ UNCHANGED <<nodes, perms, links, objects, now, uploads, server>>

\* ----------------------------------------------------------- public links
\* crypto.randomBytes(16).toString("hex"): any token may come out
Tokens == 1..MaxLinks

\* rows of the public_links table for a node
LinkRows(i) == {k \in 1..Len(links) : links[k].node_id = i}

\* check that the file exists, is a file and belongs to the requester
generatePublicLink_fetch(p, u, i) ==
  /\ Ready(p)
  /\ LET r == Req("generatePublicLink", u, i, Null, NoName) IN
     IF u = NoUser THEN Set(p, Reply(r, "UNAUTHORIZED"))
     ELSE IF ~Found(i) THEN Set(p, Reply(r, "FILE_NOT_FOUND"))
     ELSE IF nodes[i].type # "file" THEN Set(p, Reply(r, "INVALID_NODE_TYPE"))
     ELSE IF nodes[i].owner_id # u THEN Set(p, Reply(r, "ACCESS_DENIED"))
     ELSE Set(p, Goto(r, "lookup"))
  /\ UNCHANGED <<nodes, perms, links, stars, objects, now, uploads, server>>

\* check if a link already exists: .eq("node_id", id).single()
generatePublicLink_lookup(p) ==
  /\ At(p, "generatePublicLink", "lookup")
  /\ LET existingLink == Single(LinkRows(pr[p].id)) IN
     IF existingLink # {}
       THEN \E k \in existingLink :
              Set(p, [Reply(pr[p], "OK") EXCEPT !.out = links[k].token])
       ELSE Set(p, Goto(pr[p], "insert"))
  /\ UNCHANGED <<nodes, perms, links, stars, objects, now, uploads, server>>

\* generate a random token and save it
generatePublicLink_insert(p) ==
  /\ At(p, "generatePublicLink", "insert")
  /\ Len(links) < MaxLinks
  /\ \E token \in Tokens :
       /\ links' = Append(links, [node_id |-> pr[p].id, token |-> token,
                                  owner_id |-> pr[p].user])
       /\ Set(p, [Reply(pr[p], "CREATED") EXCEPT !.out = token])
  /\ UNCHANGED <<nodes, perms, stars, objects, now, uploads, server>>

\* ----------------------------------------------------------------- rename
renameFile_fetch(p, u, i, n) ==
  /\ Ready(p)
  /\ LET r == Req("renameFile", u, i, Null, n) IN
     IF u = NoUser THEN Set(p, Reply(r, "UNAUTHORIZED"))
     ELSE IF BlankName(n) THEN Set(p, Reply(r, "VALIDATION_ERROR"))
     ELSE IF ~Found(i) THEN Set(p, Reply(r, "FILE_NOT_FOUND"))
     ELSE IF nodes[i].type # "file" THEN Set(p, Reply(r, "INVALID_NODE_TYPE"))
     ELSE IF nodes[i].owner_id # u THEN Set(p, Reply(r, "ACCESS_DENIED"))
     ELSE Set(p, Goto([r EXCEPT !.ts = now], "update"))
  /\ UNCHANGED <<nodes, perms, links, stars, objects, now, uploads, server>>

\* a rename that writes the row back as an active one
RenameRow_restoring(i, n, ts) ==
  [nodes EXCEPT ![i] = [@ EXCEPT !.name = Trim(n), !.updated_at = ts,
                                 !.deleted_at = Null]]

\* .update({ name: name.trim(), updated_at: new Date().toISOString() })
RenameRow(i, n, ts) ==
  [nodes EXCEPT ![i] = [@ EXCEPT !.name = Trim(n), !.updated_at = ts]]

renameFile_update(p) ==
  /\ At(p, "renameFile", "update")
  /\ nodes' = RenameRow(pr[p].id, pr[p].name, pr[p].ts)
  /\ Set(p, Reply(pr[p], "OK"))
  /\ UNCHANGED <<perms, links, stars, objects, now, uploads, server>>

renameFolder_fetch(p, u, i, n) ==
  /\ Ready(p)
  /\ LET r == Req("renameFolder", u, i, Null, n) IN
     IF u = NoUser THEN Set(p, Reply(r, "UNAUTHORIZED"))
     ELSE IF BlankName(n) THEN Set(p, Reply(r, "VALIDATION_ERROR"))
     ELSE IF ~Found(i) THEN Set(p, Reply(r, "FOLDER_NOT_FOUND"))
     ELSE IF nodes[i].type # "folder" THEN Set(p, Reply(r, "INVALID_NODE_TYPE"))
     ELSE IF nodes[i].owner_id # u THEN Set(p, Reply(r, "ACCESS_DENIED"))
     ELSE Set(p, Goto([r EXCEPT !.ts = now], "update"))
  /\ UNCHANGED <<nodes, perms, links, stars, objects, now, uploads, server>>

renameFolder_update(p) ==
  /\ At(p, "renameFolder", "update")
  /\ nodes' = RenameRow(pr[p].id, pr[p].name, pr[p].ts)
  /\ Set(p, Reply(pr[p], "OK"))
  /\ UNCHANGED <<perms, links, stars, objects, now, uploads, server>>

\* ------------------------------------------------------ getFolderContents
\* validate the folder (skipped for the root)
getFolderContents_fetchFolder(p, u, i) ==
  /\ Ready(p)
  /\ LET r == Req("getFolderContents", u, i, Null, NoName) IN
     IF u = NoUser THEN Set(p, Reply(r, "UNAUTHORIZED"))
     ELSE IF i = Null THEN Set(p, Goto(r, "fetchContents"))
     ELSE IF ~Found(i) THEN Set(p, Reply(r, "FOLDER_NOT_FOUND"))
     ELSE IF nodes[i].type # "folder" THEN Set(p, Reply(r, "INVALID_NODE_TYPE"))
     ELSE IF nodes[i].owner_id # u THEN Set(p, Reply(r, "ACCESS_DENIED"))
     ELSE Set(p, Goto(r, "fetchContents"))
  /\ UNCHANGED <<nodes, perms, links, stars, objects, now, uploads, server>>

\* .eq("parent_id", parentId): an equality filter matches no row when the
\* value is null (a null is matched by .is only)
EqMatches(v, x) == x # Null /\ v = x

\* the requester's live rows that the filters on parent_id match
Contents(u, i) ==
  {k \in Ids : /\ nodes[k].owner_id = u
               /\ EqMatches(nodes[k].parent_id, i)
               /\ nodes[k].deleted_at = Null}

\* the characters of the names, in the order of their codes
Alphabet == <<" ", "_", "a", "b", "c", "k", "o", "p", "y">>
CharRank(c) == CHOOSE k \in 1..Len(Alphabet) : Alphabet[k] = c

\* text a sorts before text b, or is equal to it
RECURSIVE TextLeq(_, _)
TextLeq(a, b) ==
  IF a = <<>> THEN TRUE
  ELSE IF b = <<>> THEN FALSE
  ELSE IF Head(a) = Head(b) THEN TextLeq(Tail(a), Tail(b))
  ELSE CharRank(Head(a)) < CharRank(Head(b))

\* the values of the type column as text: "file" sorts before "folder"
TypeRank(t) == IF t = "file" THEN 1 ELSE 2

\* .order("type", { ascending: true }).order("name", { ascending: true })
InOrder(j, k) ==
  \/ TypeRank(nodes[j].type) < TypeRank(nodes[k].type)
  \/ /\ nodes[j].type = nodes[k].type
     /\ TextLeq(nodes[j].name, nodes[k].name)

\* the rows in the order of the query (rows that tie come in any order)
Ordered(rows) ==
  {s \in [1..Cardinality(rows) -> rows] :
     /\ \A a, b \in 1..Cardinality(rows) : a # b => s[a] # s[b]
     /\ \A a, b \in 1..Cardinality(rows) : a < b => InOrder(s[a], s[b])}

\* the child rows are fetched: in order, or, for the root, refused by a data
\* layer that cannot read the null as a value of the column
getFolderContents_fetchContents(p) ==
  /\ At(p, "getFolderContents", "fetchContents")
  /\ \/ \E contents \in Ordered(Contents(pr[p].user, pr[p].id)) :
          Set(p, [Reply(pr[p], "OK") EXCEPT !.body = contents])
     \/ /\ pr[p].id = Null
        /\ Set(p, Reply(pr[p], "DB_FETCH_FAILED"))
  /\ UNCHANGED <<nodes, perms, links, stars, objects, now, uploads, server>>

\* ------------------------------------------------- download and metadata
\* downloadFile with grants consulted: an account that holds a grant on the file is served
downloadFile_forGrantees(p, u, i) ==
  /\ Ready(p)
  /\ LET r == Req("downloadFile", u, i, Null, NoName) IN
     IF ~Found(i) THEN Set(p, Reply(r, "FILE_NOT_FOUND"))
     ELSE IF /\ nodes[i].owner_id # u
             /\ \A k \in 1..Len(perms) :
                  ~(perms[k].live /\ perms[k].node_id = i /\ perms[k].shared_with = u)
       THEN Set(p, Reply(r, "ACCESS_DENIED"))
     ELSE Set(p, Goto([r EXCEPT !.key = nodes[i].path], "stream"))
  /\ UNCHANGED <<nodes, perms, links, stars, objects, now, uploads, server>>

\* the row is read and the owner compared (not the type); then
\* s3.getObject({ Key: file.path }).createReadStream() is piped to the response
\* and the handler returns, the request still unanswered
downloadFile(p, u, i) ==
  /\ Ready(p)
  /\ LET r == Req("downloadFile", u, i, Null, NoName) IN
     IF ~Found(i) THEN Set(p, Reply(r, "FILE_NOT_FOUND"))
     ELSE IF nodes[i].owner_id # u THEN Set(p, Reply(r, "ACCESS_DENIED"))
     ELSE Set(p, Goto([r EXCEPT !.key = nodes[i].path], "stream"))
  /\ UNCHANGED <<nodes, perms, links, stars, objects, now, uploads, server>>

\* the stream answers: the object's bytes end the response, or, when the
\* store holds no object of that key (the path of a folder is null), the
\* stream emits "error" outside the handler's try and with no listener: the
\* exception is uncaught, the process exits and the client gets no answer
\* ("ECONNRESET")
downloadFile_stream(p) ==
  /\ At(p, "downloadFile", "stream")
  /\ IF pr[p].key \in objects
       THEN Set(p, Reply(pr[p], "OK")) /\ UNCHANGED server
       ELSE Set(p, Reply(pr[p], "ECONNRESET")) /\ server' = uncaughtException
  /\ UNCHANGED <<nodes, perms, links, stars, objects, now, uploads>>

getFileMetadata(p, u, i) ==
  /\ Ready(p)
  /\ LET r == Req("getFileMetadata", u, i, Null, NoName) IN
     IF ~Found(i) THEN Set(p, Reply(r, "FILE_NOT_FOUND"))
     ELSE IF nodes[i].owner_id # u THEN Set(p, Reply(r, "ACCESS_DENIED"))
     ELSE Set(p, Reply(r, "OK"))
  /\ UNCHANGED <<nodes, perms, links, stars, objects, now, uploads, server>>

\* ---------------------------------------------------------------- sharing
\* users.map(u => ({ node_id, shared_with, permission, granted_by }))
RECURSIVE permissionEntries(_, _, _)
permissionEntries(users, i, u) ==
  IF users = <<>> THEN <<>>
  ELSE <<[node_id |-> i, shared_with |-> Head(users).user_id,
          permission |-> Head(users).permission, granted_by |-> u,
          updated_at |-> Null, live |-> TRUE]>>
       \o permissionEntries(Tail(users), i, u)

shareFile_fetch(p, u, i, users) ==
  /\ Ready(p)
  /\ LET r == Req("shareFile", u, i, Null, NoName) IN
     IF u = NoUser THEN Set(p, Reply(r, "UNAUTHORIZED"))
     ELSE IF users = <<>> THEN Set(p, Reply(r, "VALIDATION_ERROR"))
     ELSE IF ~Found(i) THEN Set(p, Reply(r, "FILE_NOT_FOUND"))
     ELSE IF nodes[i].type # "file" THEN Set(p, Reply(r, "INVALID_NODE_TYPE"))
     ELSE IF nodes[i].owner_id # u THEN Set(p, Reply(r, "ACCESS_DENIED"))
     ELSE Set(p, Goto([r EXCEPT !.body = permissionEntries(users, i, u)], "insert"))
  /\ UNCHANGED <<nodes, perms, links, stars, objects, now, uploads, server>>

\* an insert that leaves out the entries whose (node_id, shared_with) pair is
\* already granted
shareFile_insert_unique(p) ==
  /\ At(p, "shareFile", "insert")
  /\ Len(perms) + Len(pr[p].body) <= MaxPerms
  /\ perms' = perms \o SelectSeq(pr[p].body,
                  LAMBDA e : \A k \in 1..Len(perms) :
                    ~(perms[k].node_id = e.node_id /\ perms[k].shared_with = e.shared_with))
  /\ Set(p, Reply(pr[p], "CREATED"))
  /\ UNCHANGED <<nodes, links, stars, objects, now, uploads, server>>

shareFile_insert(p) ==
  /\ At(p, "shareFile", "insert")
  /\ Len(perms) + Len(pr[p].body) <= MaxPerms
  /\ perms' = perms \o pr[p].body
  /\ Set(p, Reply(pr[p], "CREATED"))
  /\ UNCHANGED <<nodes, links, stars, objects, now, uploads, server>>

shareFolder_fetch(p, u, i, users) ==
  /\ Ready(p)
  /\ LET r == Req("shareFolder", u, i, Null, NoName) IN
     IF u = NoUser THEN Set(p, Reply(r, "UNAUTHORIZED"))
     ELSE IF users = <<>> THEN Set(p, Reply(r, "VALIDATION_ERROR"))
     ELSE IF ~Found(i) THEN Set(p, Reply(r, "FOLDER_NOT_FOUND"))
     ELSE IF nodes[i].type # "folder" THEN Set(p, Reply(r, "INVALID_NODE_TYPE"))
     ELSE IF nodes[i].owner_id # u THEN Set(p, Reply(r, "ACCESS_DENIED"))
     ELSE Set(p, Goto([r EXCEPT !.body = permissionEntries(users, i, u)], "insert"))
  /\ UNCHANGED <<nodes, perms, links, stars, objects, now, uploads, server>>

shareFolder_insert(p) ==
  /\ At(p, "shareFolder", "insert")
  /\ Len(perms) + Len(pr[p].body) <= MaxPerms
  /\ perms' = perms \o pr[p].body
  /\ Set(p, Reply(pr[p], "CREATED"))
  /\ UNCHANGED <<nodes, links, stars, objects, now, uploads, server>>

getFilePermissions_fetch(p, u, i) ==
  /\ Ready(p)
  /\ LET r == Req("getFilePermissions", u, i, Null, NoName) IN
     IF u = NoUser THEN Set(p, Reply(r, "UNAUTHORIZED"))
     ELSE IF ~Found(i) THEN Set(p, Reply(r, "FILE_NOT_FOUND"))
     ELSE IF nodes[i].type # "file" THEN Set(p, Reply(r, "INVALID_NODE_TYPE"))
     ELSE IF nodes[i].owner_id # u THEN Set(p, Reply(r, "ACCESS_DENIED"))
     ELSE Set(p, Goto(r, "select"))
  /\ UNCHANGED <<nodes, perms, links, stars, objects, now, uploads, server>>

\* rows of the permissions table for a node
PermRows(i) == {k \in 1..Len(perms) : perms[k].live /\ perms[k].node_id = i}

getFilePermissions_select(p) ==
  /\ At(p, "getFilePermissions", "select")
  /\ Set(p, [Reply(pr[p], "OK") EXCEPT !.snap = PermRows(pr[p].id)])
  /\ UNCHANGED <<nodes, perms, links, stars, objects, now, uploads, server>>

\* .eq("id", permissionId).eq("node_id", id).single()
existingPermission(permissionId, i) == Single({permissionId} \cap PermRows(i))

updateFilePermissions_fetch(p, u, i, permissionId, permission) ==
  /\ Ready(p)
  /\ LET r == Req("updateFilePermissions", u, i, permissionId, NoName) IN
     IF u = NoUser THEN Set(p, Reply(r, "UNAUTHORIZED"))
     ELSE IF permissionId = Null \/ permission = "" 
       THEN Set(p, Reply(r, "VALIDATION_ERROR"))
     ELSE IF ~Found(i) THEN Set(p, Reply(r, "FILE_NOT_FOUND"))
     ELSE IF nodes[i].type # "file" THEN Set(p, Reply(r, "INVALID_NODE_TYPE"))
     ELSE IF nodes[i].owner_id # u THEN Set(p, Reply(r, "ACCESS_DENIED"))
     ELSE Set(p, Goto([r EXCEPT !.body = <<permission>>], "check"))
  /\ UNCHANGED <<nodes, perms, links, stars, objects, now, uploads, server>>

updateFilePermissions_check(p) ==
  /\ At(p, "updateFilePermissions", "check")
  /\ IF existingPermission(pr[p].target, pr[p].id) = {}
       THEN Set(p, Reply(pr[p], "PERMISSION_NOT_FOUND"))
       ELSE Set(p, Goto([pr[p] EXCEPT !.ts = now], "update"))
  /\ UNCHANGED <<nodes, perms, links, stars, objects, now, uploads, server>>

\* .update({ permission, updated_at }).eq("id", permissionId).select(...)
\* .single(): a row removed since the check matches nothing, single() returns
\* an error and if (updateError) throws DB_UPDATE_FAILED
updateFilePermissions_update(p) ==
  /\ At(p, "updateFilePermissions", "update")
  /\ IF perms[pr[p].target].live
       THEN /\ perms' = [perms EXCEPT ![pr[p].target] =
                           [@ EXCEPT !.permission = pr[p].body[1],
                                     !.updated_at = pr[p].ts]]
            /\ Set(p, Reply(pr[p], "OK"))
       ELSE /\ perms' = perms
            /\ Set(p, Reply(pr[p], "DB_UPDATE_FAILED"))
  /\ UNCHANGED <<nodes, links, stars, objects, now, uploads, server>>

removeFilePermission_fetch(p, u, i, permissionId) ==
  /\ Ready(p)
  /\ LET r == Req("removeFilePermission", u, i, permissionId, NoName) IN
     IF u = NoUser THEN Set(p, Reply(r, "UNAUTHORIZED"))
     ELSE IF ~Found(i) THEN Set(p, Reply(r, "FILE_NOT_FOUND"))
     ELSE IF nodes[i].type # "file" THEN Set(p, Reply(r, "INVALID_NODE_TYPE"))
     ELSE IF nodes[i].owner_id # u THEN Set(p, Reply(r, "ACCESS_DENIED"))
     ELSE Set(p, Goto(r, "check"))
  /\ UNCHANGED <<nodes, perms, links, stars, objects, now, uploads, server>>

removeFilePermission_check(p) ==
  /\ At(p, "removeFilePermission", "check")
  /\ IF existingPermission(pr[p].target, pr[p].id) = {}
       THEN Set(p, Reply(pr[p], "PERMISSION_NOT_FOUND"))
       ELSE Set(p, Goto(pr[p], "delete"))
  /\ UNCHANGED <<nodes, perms, links, stars, objects, now, uploads, server>>

\* .from("permissions").delete().eq("id", permissionId)
removeFilePermission_delete(p) ==
  /\ At(p, "removeFilePermission", "delete")
  /\ perms' = [k \in 1..Len(perms) |->
                 IF k = pr[p].target THEN [perms[k] EXCEPT !.live = FALSE]
                 ELSE perms[k]]
  /\ Set(p, Reply(pr[p], "OK"))
  /\ UNCHANGED <<nodes, links, stars, objects, now, uploads, server>>

\* ------------------------------------------------------ generateSignedUrl
generateSignedUrl_fetch(p, u, i) ==
  /\ Ready(p)
  /\ LET r == Req("generateSignedUrl", u, i, Null, NoName) IN
     IF u = NoUser THEN Set(p, Reply(r, "UNAUTHORIZED"))
     ELSE IF ~Found(i) THEN Set(p, Reply(r, "FILE_NOT_FOUND"))
     ELSE IF nodes[i].type # "file" THEN Set(p, Reply(r, "INVALID_NODE_TYPE"))
     ELSE IF nodes[i].owner_id # u THEN Set(p, Reply(r, "ACCESS_DENIED"))
     ELSE Set(p, Goto(r, "sign"))
  /\ UNCHANGED <<nodes, perms, links, stars, objects, now, uploads, server>>

\* supabase.storage.from("files").createSignedUrl(file.path, expiresIn): the
\* store signs the url, or fails
generateSignedUrl_sign(p) ==
  /\ At(p, "generateSignedUrl", "sign")
  /\ \E signed \in BOOLEAN :
       Set(p, Reply(pr[p], IF signed THEN "OK" ELSE "SIGNED_URL_FAILED"))
  /\ UNCHANGED <<nodes, perms, links, stars, objects, now, uploads, server>>

\* --------------------------------------------------- accessPublicResource
\* rows of the public_links table that carry the token
TokenRows(token) == {k \in 1..Len(links) : links[k].token = token}

\* the token is checked and looked up: .eq("token", token).single()
accessPublicResource_lookup(p, token) ==
  /\ Ready(p)
  /\ LET r == Req("accessPublicResource", NoUser, Null, token, NoName)
         publicLink == Single(TokenRows(token)) IN
     IF token = Null THEN Set(p, Reply(r, "VALIDATION_ERROR"))
     ELSE IF publicLink = {} THEN Set(p, Reply(r, "LINK_NOT_FOUND"))
     ELSE \E k \in publicLink :
            Set(p, Goto([r EXCEPT !.id = links[k].node_id], "fetchNode"))
  /\ UNCHANGED <<nodes, perms, links, stars, objects, now, uploads, server>>

\* accessPublicResource_fetchNode without the filter on deleted_at
accessPublicResource_fetchNode_anyNode(p) ==
  /\ At(p, "accessPublicResource", "fetchNode")
  /\ LET i == pr[p].id IN
     IF ~Found(i) THEN Set(p, Reply(pr[p], "RESOURCE_NOT_FOUND"))
     ELSE IF nodes[i].type = "file" THEN Set(p, Goto(pr[p], "sign"))
     ELSE Set(p, [Reply(pr[p], "OK") EXCEPT !.out = i])
  /\ UNCHANGED <<nodes, perms, links, stars, objects, now, uploads, server>>

\* .eq("id", publicLink.node_id).is("deleted_at", null).single()
accessPublicResource_fetchNode(p) ==
  /\ At(p, "accessPublicResource", "fetchNode")
  /\ LET i == pr[p].id IN
     IF ~Found(i) \/ nodes[i].deleted_at # Null
       THEN Set(p, Reply(pr[p], "RESOURCE_NOT_FOUND"))
     ELSE IF nodes[i].type = "file" THEN Set(p, Goto(pr[p], "sign"))
     ELSE Set(p, [Reply(pr[p], "OK") EXCEPT !.out = i])
  /\ UNCHANGED <<nodes, perms, links, stars, objects, now, uploads, server>>

\* createSignedUrl(node.path, 60 * 60): the url, or null when signing failed;
\* the node's metadata is returned either way
accessPublicResource_sign(p) ==
  /\ At(p, "accessPublicResource", "sign")
  /\ \E signed \in BOOLEAN :
       Set(p, [Reply(pr[p], "OK") EXCEPT
                 !.out = pr[p].id,
                 !.key = IF signed THEN nodes[pr[p].id].path ELSE NoPath])
  /\ UNCHANGED <<nodes, perms, links, stars, objects, now, uploads, server>>

\* -------------------------------------------------------- chunked upload
\* req.body.parts absent
NoParts == <<[ETag |-> <<>>, PartNumber |-> Null]>>

\* the object store's digest of a part's bytes
ETagOf(bytes) == <<"etag", bytes>>

\* the parts the object store holds for an upload
PartsOf(uploadId, key) ==
  {u \in uploads : u.UploadId = uploadId /\ u.Key = key}

\* s3.uploadPart(params): the part replaces an earlier part of that number
StorePart(uploadId, key, partNumber, bytes) ==
  {u \in uploads : ~(u.UploadId = uploadId /\ u.Key = key
                     /\ u.PartNumber = partNumber)}
    \cup {[UploadId |-> uploadId, Key |-> key, PartNumber |-> partNumber,
           ETag |-> ETagOf(bytes)]}

\* the object store accepts a part list that is not empty, ascends by part
\* number and names parts it holds, each with its digest
Completable(uploadId, key, parts) ==
  /\ parts # <<>>
  /\ \A k \in 1..Len(parts) :
       /\ k > 1 => parts[k - 1].PartNumber < parts[k].PartNumber
       /\ \E u \in PartsOf(uploadId, key) :
            u.PartNumber = parts[k].PartNumber /\ u.ETag = parts[k].ETag

\* uploadFileChunk with the payload looked at before the fields
uploadFileChunk_payloadFirst(p, uploadId, partNumber, key, chunk) ==
  /\ Ready(p)
  /\ LET r == Req("uploadFileChunk", NoUser, uploadId, partNumber, NoName) IN
     IF chunk = Null THEN
       /\ Set(p, Reply(r, "CHUNK_MISSING"))
       /\ UNCHANGED uploads
     ELSE IF uploadId = Null \/ partNumber = Null \/ key = NoPath THEN
       /\ Set(p, Reply(r, "VALIDATION_ERROR"))
       /\ UNCHANGED uploads
     ELSE
       \/ /\ uploads' = StorePart(uploadId, key, partNumber, chunk)
          /\ Set(p, Reply(r, "OK"))
       \/ /\ Set(p, Reply(r, "CHUNK_UPLOAD_FAILED"))
          /\ UNCHANGED uploads
  /\ UNCHANGED <<nodes, perms, links, stars, objects, now, server>>

\* POST chunk: validation, then s3.uploadPart, which stores the part or fails
uploadFileChunk(p, uploadId, partNumber, key, chunk) ==
  /\ Ready(p)
  /\ LET r == Req("uploadFileChunk", NoUser, uploadId, partNumber, NoName) IN
     IF uploadId = Null \/ partNumber = Null \/ key = NoPath THEN
       /\ Set(p, Reply(r, "VALIDATION_ERROR"))
       /\ UNCHANGED uploads
     ELSE IF chunk = Null THEN
       /\ Set(p, Reply(r, "CHUNK_MISSING"))
       /\ UNCHANGED uploads
     ELSE
       \/ /\ uploads' = StorePart(uploadId, key, partNumber, chunk)
          /\ Set(p, Reply(r, "OK"))
       \/ /\ Set(p, Reply(r, "CHUNK_UPLOAD_FAILED"))
          /\ UNCHANGED uploads
  /\ UNCHANGED <<nodes, perms, links, stars, objects, now, server>>

\* validation, then s3.completeMultipartUpload, which assembles the object or
\* fails
completeChunkUpload_complete(p, u, uploadId, key, parts, n, f) ==
  /\ Ready(p)
  /\ LET r == [Req("completeChunkUpload", u, uploadId, Null, n)
                 EXCEPT !.key = key, !.body = parts, !.file = f] IN
     IF uploadId = Null \/ key = NoPath \/ parts = NoParts THEN
       /\ Set(p, Reply(r, "VALIDATION_ERROR"))
       /\ UNCHANGED <<objects, uploads>>
     ELSE
       \/ /\ Completable(uploadId, key, parts)
          /\ objects' = objects \cup {key}
          /\ uploads' = uploads \ PartsOf(uploadId, key)
          /\ Set(p, Goto(r, "insert"))
       \/ /\ Set(p, Reply(r, "UPLOAD_COMPLETE_FAILED"))
          /\ UNCHANGED <<objects, uploads>>
  /\ UNCHANGED <<nodes, perms, links, stars, now, server>>

\* completeChunkUpload_insert with the row keyed like a single-shot upload
completeChunkUpload_insert_rekeyed(p) ==
  /\ At(p, "completeChunkUpload", "insert")
  /\ Len(nodes) < MaxNodes
  /\ LET r == pr[p] IN
     /\ nodes' = Append(nodes, NewNode(r.user, "file", r.name, Null,
                                       ObjectKey(r.user, now, r.name),
                                       r.file.size, r.file.mimetype))
     /\ Set(p, [Reply(r, "CREATED") EXCEPT !.out = Len(nodes) + 1,
                                           !.key = r.key, !.body = r.body])
  /\ UNCHANGED <<perms, links, stars, objects, uploads, now, server>>

\* completeChunkUpload_insert with the failure of the insert thrown past the
\* catch block
completeChunkUpload_insert_uncaught(p) ==
  /\ At(p, "completeChunkUpload", "insert")
  /\ Len(nodes) < MaxNodes
  /\ LET r == pr[p] IN
     \/ /\ nodes' = Append(nodes, NewNode(r.user, "file", r.name, Null, r.key,
                                          r.file.size, r.file.mimetype))
        /\ Set(p, [Reply(r, "CREATED") EXCEPT !.out = Len(nodes) + 1,
                                              !.key = r.key, !.body = r.body])
     \/ /\ nodes' = nodes
        /\ Set(p, [Reply(r, "DB_INSERT_FAILED") EXCEPT !.key = r.key])
  /\ UNCHANGED <<perms, links, stars, objects, uploads, now, server>>

\* save the metadata: .from("nodes").insert([{ owner_id, type: "file", name,
\* size_bytes, mime_type, path: key }]); a failure of the insert is thrown inside
\* the try block and caught
completeChunkUpload_insert(p) ==
  /\ At(p, "completeChunkUpload", "insert")
  /\ Len(nodes) < MaxNodes
  /\ LET r == pr[p] IN
     \/ /\ nodes' = Append(nodes, NewNode(r.user, "file", r.name, Null, r.key,
                                          r.file.size, r.file.mimetype))
        /\ Set(p, [Reply(r, "CREATED") EXCEPT !.out = Len(nodes) + 1,
                                              !.key = r.key, !.body = r.body])
     \/ /\ nodes' = nodes
        /\ Set(p, [Reply(r, "UPLOAD_COMPLETE_FAILED") EXCEPT !.key = r.key])
  /\ UNCHANGED <<perms, links, stars, objects, uploads, now, server>>

\* -------------------------------------------------- listFiles, listFolders
DefaultPage == 1
DefaultLimit == 10

\* parseInt(req.query.x, 10) || d: an absent, non-numeric or zero value gives d
OrDefault(x, d) == IF x = Null THEN d ELSE x

\* Math.ceil(count / limit), limit positive
CeilDiv(count, limit) == (count + limit - 1) \div limit

\* the requester's live rows of the type
Listed(u, t) ==
  {k \in Ids : /\ nodes[k].owner_id = u
               /\ nodes[k].type = t
               /\ nodes[k].deleted_at = Null}

\* how many rows .range(offset, offset + limit - 1) yields of count rows
RangeSize(count, offset, limit) ==
  IF offset >= count THEN 0
  ELSE IF count - offset < limit THEN count - offset ELSE limit

\* the outcomes of .select(..., { count: "exact" }) ... .range(from, to): the
\* rows of the range, in the order the data layer picks (the query has no
\* order), or the data layer's refusal of a range that starts beyond the
\* last row (416, requested range not satisfiable)
RangeOutcomes(rows, offset, limit) ==
  {[error |-> FALSE, data |-> s] :
     s \in {x \in SUBSET rows :
              Cardinality(x) = RangeSize(Cardinality(rows), offset, limit)}}
  \cup (IF offset > Cardinality(rows)
          THEN {[error |-> TRUE, data |-> {}]} ELSE {})

\* the query and the response of listFiles and listFolders
ListNodes(p, o, t, u, pageParam, limitParam) ==
  /\ Ready(p)
  /\ LET r == Req(o, u, pageParam, limitParam, NoName)
         page == OrDefault(pageParam, DefaultPage)
         limit == OrDefault(limitParam, DefaultLimit)
         offset == (page - 1) * limit
         count == Cardinality(Listed(u, t)) IN
     IF u = NoUser THEN Set(p, Reply(r, "UNAUTHORIZED"))
     ELSE \E q \in RangeOutcomes(Listed(u, t), offset, limit) :
            IF q.error THEN Set(p, Reply(r, "DB_QUERY_FAILED"))
            ELSE Set(p, [Reply(r, "OK") EXCEPT
                           !.snap = q.data,
                           !.body = <<count, page, limit, CeilDiv(count, limit)>>])
  /\ UNCHANGED <<nodes, perms, links, stars, objects, uploads, now, server>>

listFiles(p, u, pageParam, limitParam) ==
  ListNodes(p, "listFiles", "file", u, pageParam, limitParam)

listFolders(p, u, pageParam, limitParam) ==
  ListNodes(p, "listFolders", "folder", u, pageParam, limitParam)

\* ------------------------------------------------------------------ search
\* the lower-case form of a character
Lower(c) == IF c = "A" THEN "a" ELSE IF c = "B" THEN "b" ELSE c

\* one character of an ilike pattern against one character of the text ("_"
\* stands for any one character)
CharMatch(pc, c) == pc = "_" \/ Lower(pc) = Lower(c)

\* name.ilike.%q%
ILike(n, q) ==
  \E start \in 0..(Len(n) - Len(q)) :
    \A k \in 1..Len(q) : CharMatch(q[k], n[start + k])

\* the rows of the search query: any of the three conditions of .or(...) (the
\* rows of nodes carry no shared_with), live, and of the type when it is given
SearchRows(u, q, type) ==
  {k \in Ids : /\ \/ ILike(nodes[k].name, q)
                  \/ nodes[k].owner_id = u
               /\ nodes[k].deleted_at = Null
               /\ type \in {"file", "folder"} => nodes[k].type = type}

\* a filter that also lets through the nodes shared with the requester
accessibleNodes_granted(rows, u) ==
  {k \in rows : \/ nodes[k].owner_id = u
                \/ \E g \in 1..Len(perms) :
                     /\ perms[g].live
                     /\ perms[g].node_id = k
                     /\ perms[g].shared_with = u}

\* nodes.filter((node) => node.owner_id === userId)
accessibleNodes(rows, u) == {k \in rows : nodes[k].owner_id = u}

\* GET /search?q=&type= : one query, then the filter on the owner. A data layer
\* that knows no column shared_with on nodes answers the query with an error.
searchNodes(p, u, q, type) ==
  /\ Ready(p)
  /\ LET r == [Req("searchNodes", u, Null, Null, q) EXCEPT !.body = <<type>>] IN
     IF u = NoUser THEN Set(p, Reply(r, "UNAUTHORIZED"))
     ELSE IF BlankName(q) THEN Set(p, Reply(r, "VALIDATION_ERROR"))
     ELSE \/ Set(p, [Reply(r, "OK") EXCEPT
                       !.name = q, !.body = <<type>>,
                       !.snap = accessibleNodes(SearchRows(u, q, type), u)])
          \/ Set(p, Reply(r, "DB_QUERY_FAILED"))
  /\ UNCHANGED <<nodes, perms, links, stars, objects, uploads, now, server>>

\* ------------------------------------------------------------------- init
Init ==
  /\ nodes = <<>>
  /\ perms = <<>>
  /\ links = <<>>
  /\ stars = <<>>
  /\ objects = {}
  /\ uploads = {}
  /\ now = 1
  /\ pr = [p \in Procs |-> Idle]
  /\ server = Listening

\* an id a caller can name: a row of the table, or an id of no row
AnyId == Ids \cup {Ghost}
AnyParent == AnyId \cup {Null}
File1 == [originalname |-> <<"a">>, size |-> 1, mimetype |-> "text"]

Mover == "u1"

NextMove ==
  \/ finish(1)
  \/ \E u \in Users, par \in Ids \cup {Null} : createFolder(1, u, <<"a">>, par)
  \/ \E u \in Users : uploadFile_put(1, u, File1)
  \/ uploadFile_insert(1)
  \/ \E i \in AnyId, par \in Ids \cup {Null} : copyFile_fetch(1, Mover, i, par)
  \/ copyFile_insert(1)
  \/ \E i \in AnyId, t \in AnyParent : moveFile_fetchFile(1, Mover, i, t)
  \/ moveFile_fetchFolder(1)
  \/ moveFile_update(1)
  \/ \E i \in AnyId, t \in AnyParent : moveFolder_fetchFolder(1, Mover, i, t)
  \/ moveFolder_fetchTarget(1)
  \/ moveFolder_fetchChildren(1)
  \/ moveFolder_update(1)

SpecMove == Init /\ [][NextMove]_vars

NextTrash ==
  \/ finish(1)
  \/ Tick
  \/ \E u \in Users, par \in Ids \cup {Null} : createFolder(1, u, <<"a">>, par)
  \/ \E u \in Users : uploadFile_put(1, u, File1)
  \/ uploadFile_insert(1)
  \/ \E i \in AnyId : softDeleteFile_fetch(1, Mover, i)
  \/ softDeleteFile_update(1)
  \/ \E i \in AnyId : softDeleteFolder_fetch(1, Mover, i)
  \/ softDeleteFolder_updateFolder(1)
  \/ softDeleteFolder_updateChildren(1)

SpecTrash == Init /\ [][NextTrash]_vars

\* two requests of one account in flight at once
NextRace ==
  \E p \in Procs :
    \/ finish(p)
    \/ createFolder(p, Mover, <<"a">>, Null)
    \/ \E i \in Ids, t \in Ids : moveFolder_fetchFolder(p, Mover, i, t)
    \/ moveFolder_fetchTarget(p)
    \/ moveFolder_fetchChildren(p)
    \/ moveFolder_update(p)

SpecRace == Init /\ [][NextRace]_vars

\* folder moves while the repository can fail the select of the rows, one
\* request after the other
NextFault ==
  \/ finish(1)
  \/ createFolder(1, Mover, <<"a">>, Null)
  \/ \E i \in Ids, t \in Ids : moveFolder_fetchFolder(1, Mover, i, t)
  \/ moveFolder_fetchTarget(1)
  \/ moveFolder_fetchChildren(1)
  \/ moveFolder_fetchChildrenFailed(1)
  \/ moveFolder_update(1)

SpecFault == Init /\ [][NextFault]_vars

\* server.close(callback): the callback runs once no connection is open, and
\* ends the process with process.exit(0)
serverClosed ==
  /\ server.isShuttingDown
  /\ ~server.exited
  /\ \A p \in Procs : pr[p].pc = "idle"
  /\ server' = [server EXCEPT !.exited = TRUE]
  /\ UNCHANGED <<nodes, perms, links, stars, objects, uploads, now, pr>>

\* signals arriving while uploads and downloads are served, until the process
\* exits
NextServer ==
  \/ \E sig \in Signals : gracefulShutdown(sig)
  \/ serverClosed
  \/ ~server.exited /\ finish(1)
  \/ ~server.exited /\ \E u \in Users : uploadFile_put(1, u, File1)
  \/ ~server.exited /\ uploadFile_insert(1)
  \/ ~server.exited /\ createFolder(1, Mover, <<"a">>, Null)
  \/ ~server.exited /\ \E i \in Ids : downloadFile(1, Mover, i)
  \/ ~server.exited /\ downloadFile_stream(1)

SpecServer == Init /\ [][NextServer]_vars

\* starring and unstarring, one request after the other
NextStar ==
  \/ finish(1)
  \/ uploadFile_put(1, Mover, File1)
  \/ uploadFile_insert(1)
  \/ \E i \in AnyId : softDeleteFile_fetch(1, Mover, i)
  \/ softDeleteFile_update(1)
  \/ \E u \in Users, i \in AnyId : markFileAsStarred_fetch(1, u, i)
  \/ markFileAsStarred_lookup(1)
  \/ markFileAsStarred_insert(1)
  \/ \E u \in Users, i \in AnyId : removeFileFromStarred_fetch(1, u, i)
  \/ removeFileFromStarred_lookup(1)
  \/ removeFileFromStarred_delete(1)

SpecStar == Init /\ [][NextStar]_vars

\* public links of the files of one account, two requests in flight at once
NextLink ==
  \E p \in Procs :
    \/ finish(p)
    \/ uploadFile_put(p, Mover, File1)
    \/ uploadFile_insert(p)
    \/ \E i \in AnyId : generatePublicLink_fetch(p, Mover, i)
    \/ generatePublicLink_lookup(p)
    \/ generatePublicLink_insert(p)

SpecLink == Init /\ [][NextLink]_vars

\* what a request body may carry
NewNames == {<<"b">>, <<" ">>}
Grantee == "u2"
UsersArrays ==
  {<<>>,
   <<[user_id |-> Grantee, permission |-> "write"]>>,
   <<[user_id |-> Grantee, permission |-> "write"],
     [user_id |-> Grantee, permission |-> "read"]>>}
Levels == {"", "read"}

\* the nodes of one account and the grants it gives, and the requests of the
\* grantee on these nodes, one after the other
NextShare ==
  \/ finish(1)
  \/ createFolder(1, Mover, <<"a">>, Null)
  \/ uploadFile_put(1, Mover, File1)
  \/ uploadFile_insert(1)
  \/ \E u \in Users, i \in Ids, us \in UsersArrays : shareFile_fetch(1, u, i, us)
  \/ shareFile_insert(1)
  \/ \E u \in Users, i \in Ids, us \in UsersArrays : shareFolder_fetch(1, u, i, us)
  \/ shareFolder_insert(1)
  \/ \E i \in Ids, n \in NewNames : renameFile_fetch(1, Grantee, i, n)
  \/ \E i \in Ids, n \in NewNames : renameFolder_fetch(1, Grantee, i, n)
  \/ \E i \in Ids, t \in Ids \cup {Null} : moveFile_fetchFile(1, Grantee, i, t)
  \/ \E i \in Ids, t \in Ids \cup {Null} : moveFolder_fetchFolder(1, Grantee, i, t)
  \/ \E i \in Ids : softDeleteFile_fetch(1, Grantee, i)
  \/ \E i \in Ids : softDeleteFolder_fetch(1, Grantee, i)
  \/ \E i \in Ids : copyFile_fetch(1, Grantee, i, Null)
  \/ \E i \in Ids : getFolderContents_fetchFolder(1, Grantee, i)
  \/ \E i \in Ids : getFilePermissions_fetch(1, Grantee, i)
  \/ \E i \in Ids, k \in 1..MaxPerms, l \in Levels :
       updateFilePermissions_fetch(1, Grantee, i, k, l)
  \/ \E i \in Ids, k \in 1..MaxPerms : removeFilePermission_fetch(1, Grantee, i, k)
  \/ \E i \in Ids : generatePublicLink_fetch(1, Grantee, i)
  \/ \E i \in Ids : generateSignedUrl_fetch(1, Grantee, i)
  \/ \E i \in Ids : downloadFile(1, Grantee, i)
  \/ \E i \in Ids : getFileMetadata(1, Grantee, i)

SpecShare == Init /\ [][NextShare]_vars

\* the node that is copied, shared, starred and moved into: the first one
\* created
FirstNode == {k \in Ids : k = 1}

\* the folders a caller can name as a target
FolderIds == {k \in Ids : nodes[k].type = "folder"}

\* public links of files that are moved into folders and trashed, one request
\* after the other
NextPublic ==
  \/ finish(1)
  \/ createFolder(1, Mover, <<"a">>, Null)
  \/ uploadFile_put(1, Mover, File1)
  \/ uploadFile_insert(1)
  \/ \E i \in Ids, t \in FolderIds : moveFile_fetchFile(1, Mover, i, t)
  \/ moveFile_fetchFolder(1)
  \/ moveFile_update(1)
  \/ \E i \in Ids : generatePublicLink_fetch(1, Mover, i)
  \/ generatePublicLink_lookup(1)
  \/ generatePublicLink_insert(1)
  \/ \E i \in Ids : softDeleteFile_fetch(1, Mover, i)
  \/ softDeleteFile_update(1)
  \/ \E i \in Ids : softDeleteFolder_fetch(1, Mover, i)
  \/ softDeleteFolder_updateFolder(1)
  \/ softDeleteFolder_updateChildren(1)
  \/ \E token \in Tokens \cup {Null} : accessPublicResource_lookup(1, token)
  \/ accessPublicResource_fetchNode(1)
  \/ accessPublicResource_sign(1)

SpecPublic == Init /\ [][NextPublic]_vars

\* what a chunked upload may send
UploadIds == {Null, 1}
PartNumbers == {1, 2}
Key1 == <<"u1", 0, <<"k">>>>
Chunks == {Null, 7}
PartOf(partNumber) == [ETag |-> ETagOf(7), PartNumber |-> partNumber]
PartLists ==
  {NoParts, <<>>, <<PartOf(1)>>, <<PartOf(1), PartOf(2)>>, <<PartOf(2), PartOf(1)>>}
File2 == [originalname |-> NoName, size |-> 2, mimetype |-> "bin"]

\* chunked and single-shot uploads, one request after the other
NextUpload ==
  \/ finish(1)
  \/ uploadFile_put(1, Mover, File1)
  \/ uploadFile_putRejected(1, Mover, File1)
  \/ uploadFile_insert(1)
  \/ uploadFile_insertFailed(1)
  \/ \E i \in UploadIds, n \in PartNumbers \cup {Null}, key \in {NoPath, Key1},
        c \in Chunks :
       uploadFileChunk(1, i, n, key, c)
  \/ \E u \in {Mover, NoUser}, i \in UploadIds, key \in {NoPath, Key1},
        parts \in PartLists, n \in {<<" ">>, <<"b">>} :
       completeChunkUpload_complete(1, u, i, key, parts, n, File2)
  \/ completeChunkUpload_insert(1)

SpecUpload == Init /\ [][NextUpload]_vars

\* files, their copies and the trash, one request after the other
NextCopy ==
  \/ finish(1)
  \/ Tick
  \/ createFolder(1, Mover, <<"a">>, Null)
  \/ uploadFile_put(1, Mover, File1)
  \/ uploadFile_insert(1)
  \/ \E i \in Ids, par \in Ids \cup {Null} : copyFile_fetch(1, Mover, i, par)
  \/ copyFile_insert(1)
  \/ \E i \in Ids : softDeleteFile_fetch(1, Mover, i)
  \/ softDeleteFile_update(1)

SpecCopy == Init /\ [][NextCopy]_vars

\* the page and limit parameters a caller sends (Null: none)
Pages == 0..MaxPage
Limits == 0..MaxPage

\* listings of the nodes of two accounts, one request after the other
NextList ==
  \/ finish(1)
  \/ \E u \in Users : createFolder(1, u, <<"a">>, Null)
  \/ \E u \in Users : uploadFile_put(1, u, File1)
  \/ uploadFile_insert(1)
  \/ \E i \in Ids : softDeleteFile_fetch(1, Mover, i)
  \/ softDeleteFile_update(1)
  \/ \E u \in Requesters, page \in Pages, limit \in Limits :
       listFiles(1, u, page, limit)
  \/ \E u \in Requesters, page \in Pages, limit \in Limits :
       listFolders(1, u, page, limit)

SpecList == Init /\ [][NextList]_vars

\* the names a folder is given
FolderNames == {<<"a">>, <<"b">>}

\* folders and files inside folders, and their listings, one request after the
\* other
NextContents ==
  \/ finish(1)
  \/ \E n \in FolderNames, par \in Ids \cup {Null} : createFolder(1, Mover, n, par)
  \/ uploadFile_put(1, Mover, File1)
  \/ uploadFile_insert(1)
  \/ \E i \in Ids, t \in FolderIds : moveFile_fetchFile(1, Mover, i, t)
  \/ moveFile_fetchFolder(1)
  \/ moveFile_update(1)
  \/ \E i \in Ids : softDeleteFile_fetch(1, Mover, i)
  \/ softDeleteFile_update(1)
  \/ \E u \in Users, i \in AnyParent : getFolderContents_fetchFolder(1, u, i)
  \/ getFolderContents_fetchContents(1)

SpecContents == Init /\ [][NextContents]_vars

\* the search keywords and the type parameter ("" when absent)
Queries == {<<>>, <<" ">>, <<"A">>, <<"b">>}
TypeParams == {"", "file", "folder"}

\* folders and files of two accounts, and searches, one request after the other
NextSearch ==
  \/ finish(1)
  \/ \E u \in Users, n \in FolderNames : createFolder(1, u, n, Null)
  \/ \E u \in Users : uploadFile_put(1, u, File1)
  \/ uploadFile_insert(1)
  \/ \E i \in Ids : softDeleteFile_fetch(1, Mover, i)
  \/ softDeleteFile_update(1)
  \/ \E u \in Requesters, q \in Queries, type \in TypeParams :
       searchNodes(1, u, q, type)

SpecSearch == Init /\ [][NextSearch]_vars

\* the grants of one account on its file and its folder, and the updates and
\* removals that the two accounts ask for, one request after the other
NextGrant ==
  \/ finish(1)
  \/ createFolder(1, Mover, <<"a">>, Null)
  \/ uploadFile_put(1, Mover, File1)
  \/ uploadFile_insert(1)
  \/ \E i \in Ids, us \in UsersArrays : shareFile_fetch(1, Mover, i, us)
  \/ shareFile_insert(1)
  \/ \E i \in Ids, us \in UsersArrays : shareFolder_fetch(1, Mover, i, us)
  \/ shareFolder_insert(1)
  \/ \E u \in Users, i \in Ids, k \in 1..MaxPerms, l \in Levels :
       updateFilePermissions_fetch(1, u, i, k, l)
  \/ updateFilePermissions_check(1)
  \/ updateFilePermissions_update(1)
  \/ \E u \in Users, i \in Ids, k \in 1..MaxPerms :
       removeFilePermission_fetch(1, u, i, k)
  \/ removeFilePermission_check(1)
  \/ removeFilePermission_delete(1)

SpecGrant == Init /\ [][NextGrant]_vars

\* one grant entry
OneEntry == <<[user_id |-> Grantee, permission |-> "write"]>>

\* every operation that writes a node, a grant or a star, by one account, one
\* request after the other
NextLife ==
  \/ finish(1)
  \/ createFolder(1, Mover, <<"a">>, Null)
  \/ uploadFile_put(1, Mover, File1)
  \/ uploadFile_insert(1)
  \/ \E i \in Ids : renameFile_fetch(1, Mover, i, <<"a">>)
  \/ renameFile_update(1)
  \/ \E i \in Ids : renameFolder_fetch(1, Mover, i, <<"a">>)
  \/ renameFolder_update(1)
  \/ \E i \in Ids, t \in FirstNode : moveFile_fetchFile(1, Mover, i, t)
  \/ moveFile_fetchFolder(1)
  \/ moveFile_update(1)
  \/ \E i \in FolderIds, t \in FirstNode : moveFolder_fetchFolder(1, Mover, i, t)
  \/ moveFolder_fetchTarget(1)
  \/ moveFolder_fetchChildren(1)
  \/ moveFolder_update(1)
  \/ \E i \in FirstNode : copyFile_fetch(1, Mover, i, Null)
  \/ copyFile_insert(1)
  \/ \E i \in Ids : softDeleteFile_fetch(1, Mover, i)
  \/ softDeleteFile_update(1)
  \/ \E i \in Ids : softDeleteFolder_fetch(1, Mover, i)
  \/ softDeleteFolder_updateFolder(1)
  \/ softDeleteFolder_updateChildren(1)
  \/ \E i \in FirstNode : shareFile_fetch(1, Mover, i, OneEntry)
  \/ shareFile_insert(1)
  \/ \E i \in FirstNode : shareFolder_fetch(1, Mover, i, OneEntry)
  \/ shareFolder_insert(1)
  \/ \E i \in FirstNode : markFileAsStarred_fetch(1, Mover, i)
  \/ markFileAsStarred_lookup(1)
  \/ markFileAsStarred_insert(1)

SpecLife == Init /\ [][NextLife]_vars

\* soft deletes of the nodes of one account, two requests in flight at once
NextTrashRace ==
  \/ Tick
  \/ \E p \in Procs :
       \/ finish(p)
       \/ createFolder(p, Mover, <<"a">>, Null)
       \/ uploadFile_put(p, Mover, File1)
       \/ uploadFile_insert(p)
       \/ \E i \in Ids : softDeleteFile_fetch(p, Mover, i)
       \/ softDeleteFile_update(p)
       \/ \E i \in Ids : softDeleteFolder_fetch(p, Mover, i)
       \/ softDeleteFolder_updateFolder(p)
       \/ softDeleteFolder_updateChildren(p)

SpecTrashRace == Init /\ [][NextTrashRace]_vars

\* stars of one account on its files, two requests in flight at once
NextStarRace ==
  \E p \in Procs :
    \/ finish(p)
    \/ uploadFile_put(p, Mover, File1)
    \/ uploadFile_insert(p)
    \/ \E i \in Ids : markFileAsStarred_fetch(p, Mover, i)
    \/ markFileAsStarred_lookup(p)
    \/ markFileAsStarred_insert(p)
    \/ \E i \in Ids : removeFileFromStarred_fetch(p, Mover, i)
    \/ removeFileFromStarred_lookup(p)
    \/ removeFileFromStarred_delete(p)

SpecStarRace == Init /\ [][NextStarRace]_vars

\* the grants an owner gives: to the other account, or to itself
GrantArrays ==
  {<<[user_id |-> Grantee, permission |-> "write"]>>,
   <<[user_id |-> Mover, permission |-> "write"]>>}

\* no request has written a node, a star or a link yet
Settled ==
  /\ Len(links) = 0
  /\ Len(stars) = 0
  /\ \A k \in Ids : /\ nodes[k].deleted_at = Null
                    /\ nodes[k].parent_id = Null
                    /\ nodes[k].name # <<"b">>

\* ... and there is room for a second node
Fresh == Settled /\ Len(nodes) < 2

\* fewer than two grants have been given
Few == Len(perms) < 2

\* the nodes of one account and the requests of both accounts on them, every
\* operation among them, one request after the other on connection 1, while on
\* connection 2 the owner gives grants on the first node, to the other account
\* or to itself. A writing request starts on nodes that are as created (one
\* write per run), a share starts while fewer than two grants have been given,
\* any other request that reads or changes grants starts at any time.
NextHold ==
  \/ finish(1)
  \/ finish(2)
  \/ Few /\ \E i \in FirstNode, us \in GrantArrays : shareFile_fetch(2, Mover, i, us)
  \/ shareFile_insert(2)
  \/ Few /\ \E i \in FirstNode, us \in GrantArrays : shareFolder_fetch(2, Mover, i, us)
  \/ shareFolder_insert(2)
  \/ Fresh /\ createFolder(1, Mover, <<"a">>, Null)
  \/ Fresh /\ uploadFile_put(1, Mover, File1)
  \/ uploadFile_insert(1)
  \/ Few /\ \E u \in Users, i \in FirstNode : shareFile_fetch(1, u, i, OneEntry)
  \/ shareFile_insert(1)
  \/ Few /\ \E u \in Users, i \in FirstNode : shareFolder_fetch(1, u, i, OneEntry)
  \/ shareFolder_insert(1)
  \/ \E u \in Users, i \in FirstNode : getFilePermissions_fetch(1, u, i)
  \/ getFilePermissions_select(1)
  \/ \E u \in Users, i \in FirstNode, k \in 1..MaxPerms :
       updateFilePermissions_fetch(1, u, i, k, "write")
  \/ updateFilePermissions_check(1)
  \/ updateFilePermissions_update(1)
  \/ \E u \in Users, i \in FirstNode, k \in 1..MaxPerms :
       removeFilePermission_fetch(1, u, i, k)
  \/ removeFilePermission_check(1)
  \/ removeFilePermission_delete(1)
  \/ Settled /\ \E u \in Users, i \in FirstNode : renameFile_fetch(1, u, i, <<"b">>)
  \/ renameFile_update(1)
  \/ Settled /\ \E u \in Users, i \in FirstNode : renameFolder_fetch(1, u, i, <<"b">>)
  \/ renameFolder_update(1)
  \/ Settled /\ \E u \in Users, i \in Ids, t \in FirstNode :
                  moveFile_fetchFile(1, u, i, t)
  \/ moveFile_fetchFolder(1)
  \/ moveFile_update(1)
  \/ Settled /\ \E u \in Users, i \in Ids, t \in FirstNode :
                  moveFolder_fetchFolder(1, u, i, t)
  \/ moveFolder_fetchTarget(1)
  \/ moveFolder_fetchChildren(1)
  \/ moveFolder_update(1)
  \/ Settled /\ \E u \in Users, i \in FirstNode : softDeleteFile_fetch(1, u, i)
  \/ softDeleteFile_update(1)
  \/ Settled /\ \E u \in Users, i \in FirstNode : softDeleteFolder_fetch(1, u, i)
  \/ softDeleteFolder_updateFolder(1)
  \/ softDeleteFolder_updateChildren(1)
  \/ Fresh /\ \E u \in Users, i \in FirstNode : copyFile_fetch(1, u, i, Null)
  \/ copyFile_insert(1)
  \/ Settled /\ \E u \in Users, i \in FirstNode : markFileAsStarred_fetch(1, u, i)
  \/ markFileAsStarred_lookup(1)
  \/ markFileAsStarred_insert(1)
  \/ \E u \in Users, i \in FirstNode : removeFileFromStarred_fetch(1, u, i)
  \/ removeFileFromStarred_lookup(1)
  \/ removeFileFromStarred_delete(1)
  \/ Settled /\ \E u \in Users, i \in FirstNode : generatePublicLink_fetch(1, u, i)
  \/ generatePublicLink_lookup(1)
  \/ generatePublicLink_insert(1)
  \/ \E u \in Users, i \in FirstNode : generateSignedUrl_fetch(1, u, i)
  \/ generateSignedUrl_sign(1)
  \/ \E u \in Users, i \in FirstNode : getFolderContents_fetchFolder(1, u, i)
  \/ getFolderContents_fetchContents(1)
  \/ \E u \in Users, i \in FirstNode : downloadFile(1, u, i)
  \/ downloadFile_stream(1)
  \/ \E u \in Users, i \in FirstNode : getFileMetadata(1, u, i)
  \/ \E u \in Users : listFiles(1, u, Null, Null)
  \/ \E u \in Users : listFolders(1, u, Null, Null)
  \/ \E u \in Users, type \in TypeParams : searchNodes(1, u, <<"A">>, type)

SpecHold == Init /\ [][NextHold]_vars

\* folders and files of two accounts, also inside each other's folders, and
\* the writing requests of one of them on all of these, one after the other
NextOwn ==
  \/ finish(1)
  \/ \E u \in Users, par \in FirstNode \cup {Null} : createFolder(1, u, <<"a">>, par)
  \/ \E u \in Users : uploadFile_put(1, u, File1)
  \/ uploadFile_insert(1)
  \/ \E i \in Ids : renameFile_fetch(1, Mover, i, <<"a">>)
  \/ renameFile_update(1)
  \/ \E i \in Ids : renameFolder_fetch(1, Mover, i, <<"a">>)
  \/ renameFolder_update(1)
  \/ \E i \in Ids, t \in FirstNode : moveFile_fetchFile(1, Mover, i, t)
  \/ moveFile_fetchFolder(1)
  \/ moveFile_update(1)
  \/ \E i \in FolderIds, t \in FirstNode : moveFolder_fetchFolder(1, Mover, i, t)
  \/ moveFolder_fetchTarget(1)
  \/ moveFolder_fetchChildren(1)
  \/ moveFolder_update(1)
  \/ \E i \in Ids, par \in FirstNode \cup {Null} : copyFile_fetch(1, Mover, i, par)
  \/ copyFile_insert(1)
  \/ \E i \in Ids : softDeleteFile_fetch(1, Mover, i)
  \/ softDeleteFile_update(1)
  \/ \E i \in Ids : softDeleteFolder_fetch(1, Mover, i)
  \/ softDeleteFolder_updateFolder(1)
  \/ softDeleteFolder_updateChildren(1)

SpecOwn == Init /\ [][NextOwn]_vars

\* ============================================================== the claims
\* following parent_id from i ends at null within k steps
RECURSIVE Up(_, _)
Up(i, k) ==
  IF i = Null THEN TRUE
  ELSE IF k = 0 \/ ~Found(i) THEN FALSE
  ELSE Up(nodes[i].parent_id, k - 1)

\* f is met on the way up from i, within k steps
RECURSIVE Under(_, _, _)
Under(i, f, k) ==
  IF i = Null \/ ~Found(i) \/ k = 0 THEN FALSE
  ELSE nodes[i].parent_id = f \/ Under(nodes[i].parent_id, f, k - 1)

\* t is a transitive descendant of f
Descendant(t, f) == Under(t, f, Len(nodes))

\* process p answers in this step
Replies(p) == pr[p].pc # "done" /\ pr'[p].pc = "done"

OwnedBy(i, u, t) ==
  Found(i) /\ nodes[i].owner_id = u /\ nodes[i].type = t

\* C1: after any sequence of createFolder, moveFolder and moveFile run one
\* after the other, the parent chain of every node ends at null within as
\* many steps as there are nodes.
C1_ChainsTerminate == \A i \in Ids : Up(i, Len(nodes))

\* C2: with moveFolder requests of one owner interleaved at their repository
\* calls, no folder is ever its own ancestor (the parent graph stays acyclic).
C2_AcyclicUnderRace == \A i \in Ids : ~Descendant(i, i)

\* C3: moveFolder(actor, F, T) with F and T folders of the actor answers
\* INVALID_MOVE whenever T = F or T is a transitive descendant of F, and then
\* no row changes.
C3_MoveIntoSubtreeRejected ==
  [][\A p \in Procs :
       LET r == pr'[p] IN
       ( /\ Replies(p)
         /\ r.op = "moveFolder"
         /\ OwnedBy(r.id, r.user, "folder")
         /\ OwnedBy(r.target, r.user, "folder")
         /\ (r.target = r.id \/ Descendant(r.target, r.id)) )
       => (r.res = "INVALID_MOVE" /\ nodes' = nodes)]_vars

\* C6: every non-null parent_id names an existing FOLDER row of the same
\* owner, in every reachable state.
C6_ParentIsOwnedFolder ==
  \A i \in Ids :
    nodes[i].parent_id # Null => OwnedBy(nodes[i].parent_id, nodes[i].owner_id, "folder")

\* the steps of moveFile before its update leave the nodes table alone
MoveFileWritesLast ==
  \A p \in Procs :
    (pr'[p] # pr[p] /\ pr'[p].op = "moveFile" /\ pr[p].pc # "update") => nodes' = nodes

\* C7 (as claimed): moveFile on the actor's own file answers FOLDER_NOT_FOUND
\* when T names no row and ACCESS_DENIED when T is a row of another account,
\* the file's parent_id and updated_at unchanged.
C7_AsClaimed ==
  [][/\ MoveFileWritesLast
     /\ \A p \in Procs :
          LET r == pr'[p] IN
          ( /\ Replies(p)
            /\ r.op = "moveFile"
            /\ OwnedBy(r.id, r.user, "file")
            /\ r.target # Null )
          => /\ ~Found(r.target) => r.res = "FOLDER_NOT_FOUND"
             /\ (Found(r.target) /\ nodes[r.target].owner_id # r.user)
                  => r.res = "ACCESS_DENIED"]_vars

\* C7 (amended): moveFile on the actor's own file answers FOLDER_NOT_FOUND
\* when T names no row, ACCESS_DENIED when T is a FOLDER of another account
\* and INVALID_TARGET when T is a row that is no folder; in each case no row
\* of the nodes table changes.
C7_MoveFileRejects ==
  [][/\ MoveFileWritesLast
     /\ \A p \in Procs :
          LET r == pr'[p] IN
          ( /\ Replies(p)
            /\ r.op = "moveFile"
            /\ OwnedBy(r.id, r.user, "file")
            /\ r.target # Null )
          => /\ ~Found(r.target) => r.res = "FOLDER_NOT_FOUND"
             /\ (Found(r.target) /\ nodes[r.target].type # "folder")
                  => r.res = "INVALID_TARGET"
             /\ ( /\ Found(r.target)
                  /\ nodes[r.target].type = "folder"
                  /\ nodes[r.target].owner_id # r.user )
                  => r.res = "ACCESS_DENIED"
             /\ r.res # "OK" => nodes' = nodes]_vars

\* a moveFile of the actor's own file into a folder of another account has
\* been refused
C7_Witness ==
  \E p \in Procs :
    /\ pr[p].pc = "done"
    /\ pr[p].op = "moveFile"
    /\ pr[p].res = "ACCESS_DENIED"
    /\ OwnedBy(pr[p].id, pr[p].user, "file")
    /\ Found(pr[p].target)
    /\ nodes[pr[p].target].type = "folder"
    /\ nodes[pr[p].target].owner_id # pr[p].user

\* i hangs under f by a chain of rows that all belong to u
RECURSIVE OwnUnder(_, _, _, _)
OwnUnder(i, f, u, k) ==
  IF i = Null \/ ~Found(i) \/ k = 0 THEN FALSE
  ELSE /\ nodes[i].owner_id = u
       /\ (nodes[i].parent_id = f \/ OwnUnder(nodes[i].parent_id, f, u, k - 1))

\* C4: once softDeleteFolder(actor, F) has succeeded, F and every transitive
\* descendant of F (here: those reached through the actor's own rows) carry a
\* deleted_at.
C4_CascadeReachesDescendants ==
  \A p \in Procs :
    (pr[p].pc = "done" /\ pr[p].op = "softDeleteFolder" /\ pr[p].res = "OK")
    => \A i \in Ids :
         (i = pr[p].id \/ OwnUnder(i, pr[p].id, pr[p].user, Len(nodes)))
         => nodes[i].deleted_at # Null

\* a row created under a trashed folder starts without deleted_at
CreatedActive ==
  \A p \in Procs :
    (Replies(p) /\ pr'[p].op = "createFolder" /\ pr'[p].res = "OK")
    => nodes'[pr'[p].out].deleted_at = Null

\* the cascade of softDeleteFolder(f) is still to come
CascadePending(f) ==
  \E p \in Procs : At(p, "softDeleteFolder", "updateChildren") /\ pr[p].id = f

\* an active row under a folder whose softDelete has completed is trashed only
\* by its own softDelete
StaysActive ==
  \A i \in Ids :
    ( /\ nodes[i].deleted_at = Null
      /\ Found(nodes[i].parent_id)
      /\ nodes[nodes[i].parent_id].deleted_at # Null
      /\ ~CascadePending(nodes[i].parent_id)
      /\ nodes'[i].deleted_at # Null )
    => \E p \in Procs :
         /\ pr[p].op \in {"softDeleteFile", "softDeleteFolder"}
         /\ pr[p].pc \in {"update", "updateFolder"}
         /\ pr[p].id = i
         /\ pr'[p] # pr[p]

\* the folder and its children are trashed when softDeleteFolder has answered
ChildrenTrashed ==
  \A p \in Procs :
    (Replies(p) /\ pr'[p].op = "softDeleteFolder" /\ pr'[p].res = "OK")
    => \A i \in Ids :
         (i = pr'[p].id \/ nodes'[i].parent_id = pr'[p].id)
         => nodes'[i].deleted_at # Null

\* C5: cascading trash is a snapshot: when softDeleteFolder(F) has completed,
\* F and its children are trashed; a folder created under F afterwards has no
\* deleted_at and keeps none until it is soft-deleted itself.
C5_CascadeIsSnapshot == [][ChildrenTrashed /\ CreatedActive /\ StaysActive]_vars

\* the part of C5 about the late arrival alone
C5_LateArrivalStaysActive == [][CreatedActive /\ StaysActive]_vars

\* a folder created under an already trashed folder
C5_LateArrival ==
  \E p \in Procs :
    /\ pr[p].pc = "done" /\ pr[p].op = "createFolder" /\ pr[p].res = "OK"
    /\ Found(pr[p].target)
    /\ nodes[pr[p].target].deleted_at # Null
    /\ nodes[pr[p].out].deleted_at = Null

\* ---------------------------------------------------------------------- C9
\* the (account, file) pairs that have more than one row in the stars table
DoublyStarred ==
  {uf \in Users \X Ids : Cardinality(StarRows(uf[1], uf[2])) > 1}

\* the request of process 1 that has just been answered with success
Starred(o) ==
  /\ pr[1].op = o
  /\ pr[1].pc = "done"
  /\ pr[1].res \in {"OK", "CREATED"}

\* C9: star is idempotent.  A star request on a file that is there is answered
\* with success, and once it is answered (for the first time or again) exactly
\* one (account, file) row is in the stars table: no pair ever has two rows.
\* An unstar request that finds no row for the pair is answered with success
\* and deletes nothing.
C9_StarIdempotent ==
  /\ [](DoublyStarred = {})
  /\ [](Starred("markFileAsStarred")
          => Cardinality(StarRows(pr[1].user, pr[1].id)) = 1)
  /\ [][markFileAsStarred_lookup(1) =>
          /\ pr'[1].pc # "done" \/ pr'[1].res = "OK"
          /\ (StarRows(pr[1].user, pr[1].id) # {}) => pr'[1].pc = "done"]_vars
  /\ [][markFileAsStarred_insert(1) => pr'[1].res = "CREATED"]_vars
  /\ [][(removeFileFromStarred_lookup(1) /\ StarRows(pr[1].user, pr[1].id) = {})
          => (pr'[1].pc = "done" /\ pr'[1].res = "OK" /\ stars' = stars)]_vars

\* a second star of the same file by the same account has been answered with
\* success without an insert, and the pair has its one row
C9_StarredAgain ==
  /\ pr[1].op = "markFileAsStarred"
  /\ pr[1].pc = "done"
  /\ pr[1].res = "OK"
  /\ pr[1].out = Null
  /\ Cardinality(StarRows(pr[1].user, pr[1].id)) = 1

\* --------------------------------------------------------------------- C10
\* C10: createPublicLink is idempotent by lookup.  Whenever the lookup of a
\* call runs while at least one link row exists for the node, the call is
\* answered there and then with the token of one of these rows and goes on to
\* no insert.
C10_IdempotentByLookup ==
  [][\A p \in Procs :
       (generatePublicLink_lookup(p) /\ LinkRows(pr[p].id) # {}) =>
          /\ pr'[p].pc = "done"
          /\ pr'[p].res = "OK"
          /\ pr'[p].out \in {links[k].token : k \in LinkRows(pr[p].id)}
          /\ links' = links]_vars

\* ---------------------------------------------------------------------- C8
\* the handlers of the operations the claim lists, by the node type they serve
FileOnlyOps ==
  {"getFilePermissions", "updateFilePermissions", "removeFilePermission",
   "generatePublicLink", "generateSignedUrl"}
FileOps ==
  FileOnlyOps \cup {"renameFile", "moveFile", "softDeleteFile", "copyFile", "shareFile"}
FolderOps ==
  {"renameFolder", "moveFolder", "softDeleteFolder", "shareFolder",
   "getFolderContents"}
UntypedOps == {"downloadFile", "getFileMetadata"}

\* process 1 takes up a request of one of these operations, with arguments that
\* pass validation, on an existing node that the requester does not own
NonOwnerRequest ==
  /\ Ready(1)
  /\ pr'[1].op \in FileOps \cup FolderOps \cup UntypedOps
  /\ pr'[1].user \in Users
  /\ Found(pr'[1].id)
  /\ nodes[pr'[1].id].owner_id # pr'[1].user
  /\ pr'[1].res # "VALIDATION_ERROR"

\* the node is of the type the handler serves
TypeServed(o, i) ==
  \/ o \in UntypedOps
  \/ o \in FileOps /\ nodes[i].type = "file"
  \/ o \in FolderOps /\ nodes[i].type = "folder"

\* the requester holds a grant on the node
HoldsGrant(u, i) ==
  \E k \in PermRows(i) : perms[k].shared_with = u

\* the request is answered at once with this code and no table changes
Refused(code) ==
  /\ pr'[1].pc = "done"
  /\ pr'[1].res = code
  /\ UNCHANGED <<nodes, perms, links, stars, objects, uploads, server>>

\* C8 as stated: every listed operation on an existing node by a requester
\* who is not its owner fails with ACCESS_DENIED, grant or no grant.  (The
\* operations that have a file and a folder handler, copy and list folder
\* contents are taken on nodes of their own type only.)
C8_AsClaimed ==
  [][(NonOwnerRequest /\ (pr'[1].op \in FileOnlyOps
                           \/ TypeServed(pr'[1].op, pr'[1].id)))
       => Refused("ACCESS_DENIED")]_vars

\* C8 (amended): a listed operation, called with arguments that pass
\* validation on an existing node by an account that is not its owner, never
\* succeeds and changes nothing, whether or not the account holds a grant on
\* the node: it fails with ACCESS_DENIED when the node is of the type the
\* handler serves (download and getFileMetadata serve any type), and with
\* INVALID_NODE_TYPE when it is not, the type being checked before the owner.
C8_NonOwnerRefused ==
  [][NonOwnerRequest =>
       IF TypeServed(pr'[1].op, pr'[1].id) THEN Refused("ACCESS_DENIED")
       ELSE Refused("INVALID_NODE_TYPE")]_vars

\* a download by an account that holds a grant on the file has been refused
C8_GranteeRefused ==
  /\ pr[1].op = "downloadFile"
  /\ pr[1].pc = "done"
  /\ pr[1].res = "ACCESS_DENIED"
  /\ Found(pr[1].id)
  /\ nodes[pr[1].id].type = "file"
  /\ HoldsGrant(pr[1].user, pr[1].id)

\* --------------------------------------------------------------------- C11
\* C11: resolvePublicResource answers RESOURCE_NOT_FOUND whenever the node of
\* the link it found is trashed (by its own soft delete or by the cascade of a
\* folder, before or after the link was made), and an answer that carries a
\* node's metadata or download url is the answer for a node that is not
\* trashed.
C11_TrashedNotResolved ==
  /\ [][(accessPublicResource_fetchNode(1) /\ nodes[pr[1].id].deleted_at # Null)
          => (pr'[1].pc = "done" /\ pr'[1].res = "RESOURCE_NOT_FOUND"
              /\ pr'[1].out = Null /\ pr'[1].key = NoPath)]_vars
  /\ []((pr[1].op = "accessPublicResource" /\ (pr[1].pc = "sign" \/ pr[1].res = "OK"))
          => nodes[pr[1].id].deleted_at = Null)

\* the link of a file that was trashed by the cascade of its folder has been
\* resolved, with RESOURCE_NOT_FOUND
C11_CascadedNotResolved ==
  /\ pr[1].op = "accessPublicResource"
  /\ pr[1].pc = "done"
  /\ pr[1].res = "RESOURCE_NOT_FOUND"
  /\ Found(pr[1].id)
  /\ nodes[pr[1].id].deleted_at # Null
  /\ nodes[pr[1].id].parent_id # Null
  /\ nodes[nodes[pr[1].id].parent_id].deleted_at = nodes[pr[1].id].deleted_at

\* --------------------------------------------------------------------- C12
\* the row the request of process 1 asks for
AssembledRow(r) ==
  /\ r.type = "file"
  /\ r.owner_id = pr[1].user
  /\ r.path = pr[1].key
  /\ r.size_bytes = pr[1].file.size
  /\ r.mime_type = pr[1].file.mimetype
  /\ r.name = pr[1].name

\* C12: a completeUpload that succeeds inserts exactly one new FILE node, owned
\* by the requester, with storage_path the supplied key and size_bytes and
\* mime_type the values of the request; every other step of the upload (the
\* chunks, the completion at the object store) and every failed completion
\* leaves the nodes as they are, and the insert changes no other node.
C12_CompleteInsertsOneFile ==
  /\ [][(completeChunkUpload_insert(1) /\ pr'[1].res = "CREATED") =>
          /\ Len(nodes') = Len(nodes) + 1
          /\ SubSeq(nodes', 1, Len(nodes)) = nodes
          /\ AssembledRow(nodes'[Len(nodes')])
          /\ pr'[1].res = "CREATED"
          /\ pr'[1].out = Len(nodes')]_vars
  /\ [][((\E c \in Chunks \ {Null}, i \in UploadIds, n \in PartNumbers :
             uploadFileChunk(1, i, n, Key1, c))
         \/ (Ready(1) /\ pr'[1].op = "completeChunkUpload")
         \/ (completeChunkUpload_insert(1) /\ pr'[1].res # "CREATED"))
          => nodes' = nodes]_vars

\* an upload whose parts 1 and 2 were completed in order has its node
C12_TwoPartsAssembled ==
  /\ pr[1].op = "completeChunkUpload"
  /\ pr[1].pc = "done"
  /\ pr[1].res = "CREATED"
  /\ pr[1].user \in Users
  /\ pr[1].body = <<PartOf(1), PartOf(2)>>
  /\ pr[1].key \in objects
  /\ nodes[pr[1].out].path = pr[1].key
  /\ nodes[pr[1].out].owner_id = pr[1].user

\* --------------------------------------------------------------------- C13
\* the row is a copy of the source: a file named <source>_copy with the
\* source's stored object, size and mime type, under the target when one is
\* given and under the source's parent when none is
CopyOf(row, source, target) ==
  /\ row.type = "file"
  /\ row.name = source.name \o <<"_", "c", "o", "p", "y">>
  /\ row.path = source.path
  /\ row.size_bytes = source.size_bytes
  /\ row.mime_type = source.mime_type
  /\ row.parent_id = IF target # Null THEN target ELSE source.parent_id

\* C13: copy of a file the actor owns inserts exactly one node, under a fresh
\* id, that is a copy of the source as it stands, and changes neither the
\* source nor any other node.
C13_CopyInsertsOneCopy ==
  [][copyFile_insert(1) =>
       /\ Len(nodes') = Len(nodes) + 1
       /\ SubSeq(nodes', 1, Len(nodes)) = nodes
       /\ pr'[1].out = Len(nodes') /\ pr'[1].out \notin Ids
       /\ CopyOf(nodes'[Len(nodes')], nodes[pr[1].id], pr[1].target)
       /\ nodes'[Len(nodes')].owner_id = pr[1].user]_vars

\* a file inside a folder has been copied with no target given, and the copy
\* is in that folder
C13_CopiedInPlace ==
  /\ pr[1].op = "copyFile"
  /\ pr[1].pc = "done"
  /\ pr[1].res = "OK"
  /\ pr[1].target = Null
  /\ nodes[pr[1].id].parent_id # Null
  /\ nodes[pr[1].out].parent_id = nodes[pr[1].id].parent_id
  /\ nodes[pr[1].out].path = nodes[pr[1].id].path

\* --------------------------------------------------------------------- C14
\* the other rows that share the stored object of row i
Sharers(i) == {k \in Ids \ {i} : nodes[k].path = nodes[i].path}

\* C14: soft-deleting a file (a copy, or the file it was copied from) stamps
\* that one row and nothing else: every row that shares its stored object
\* keeps its state and its storage_path, and the object store is not written
\* to, so the stored object of every file row is still there.
C14_TrashKeepsSharedObject ==
  /\ [][softDeleteFile_update(1) =>
          /\ objects' = objects
          /\ Len(nodes') = Len(nodes)
          /\ \A k \in Sharers(pr[1].id) : nodes'[k] = nodes[k]
          /\ nodes'[pr[1].id].path = nodes[pr[1].id].path]_vars
  /\ [](\A k \in Ids : nodes[k].type = "file" => nodes[k].path \in objects)

\* a copy has been trashed; its source is active and its object is stored
C14_CopyTrashed ==
  /\ pr[1].op = "softDeleteFile"
  /\ pr[1].pc = "done"
  /\ pr[1].res = "OK"
  /\ nodes[pr[1].id].deleted_at # Null
  /\ nodes[pr[1].id].name = File1.originalname \o Suffix
  /\ \E k \in Sharers(pr[1].id) :
       /\ nodes[k].name = File1.originalname
       /\ nodes[k].deleted_at = Null
       /\ nodes[k].path \in objects

\* --------------------------------------------------------------------- C15
\* process 1 has answered a listing request of an account
ListingAnswered ==
  /\ pr[1].op \in {"listFiles", "listFolders"}
  /\ pr[1].pc = "done"
  /\ pr[1].user \in Users

\* C15: every listing request of an account, whatever page and limit it
\* carries, is answered with the pagination data, in which totalPages is
\* ceil(total / limit) and total counts the account's live nodes of the type;
\* a page beyond totalPages is answered with an empty list, not an error.
C15_PaginationTotals ==
  ListingAnswered =>
    LET t == IF pr[1].op = "listFiles" THEN "file" ELSE "folder"
        total == Cardinality(Listed(pr[1].user, t))
        page == IF pr[1].id = Null THEN 1 ELSE pr[1].id
        limit == IF pr[1].target = Null THEN 10 ELSE pr[1].target
        totalPages == IF total % limit = 0 THEN total \div limit
                      ELSE total \div limit + 1 IN
    /\ pr[1].res = "OK"
    /\ pr[1].body = <<total, page, limit, totalPages>>
    /\ page > totalPages => pr[1].snap = {}

\* --------------------------------------------------------------------- C16
\* the account's live nodes whose parent is the one asked for (null: the root)
ChildrenOf(u, par) ==
  {k \in Ids : /\ nodes[k].owner_id = u
               /\ nodes[k].parent_id = par
               /\ nodes[k].deleted_at = Null}

\* every folder comes before every file, and names ascend within a type
FoldersFirst(s) ==
  \A a, b \in 1..Len(s) :
    a < b =>
      /\ ~(nodes[s[a]].type = "file" /\ nodes[s[b]].type = "folder")
      /\ nodes[s[a]].type = nodes[s[b]].type
           => TextLeq(nodes[s[a]].name, nodes[s[b]].name)

\* process 1 has answered a listing of the root or of a folder of the requester
ContentsAnswered ==
  /\ pr[1].op = "getFolderContents"
  /\ pr[1].pc = "done"
  /\ pr[1].user \in Users
  /\ \/ pr[1].id = Null
     \/ /\ Found(pr[1].id)
        /\ nodes[pr[1].id].type = "folder"
        /\ nodes[pr[1].id].owner_id = pr[1].user

\* C16: the listing of a parent (a folder of the owner, or null for the root)
\* is answered with exactly the owner's live nodes whose parent_id is that
\* parent, each once, all folders before all files and names ascending within
\* each type.
C16_ContentsListed ==
  ContentsAnswered =>
    /\ pr[1].res = "OK"
    /\ {pr[1].body[k] : k \in 1..Len(pr[1].body)} = ChildrenOf(pr[1].user, pr[1].id)
    /\ Len(pr[1].body) = Cardinality(ChildrenOf(pr[1].user, pr[1].id))
    /\ FoldersFirst(pr[1].body)

\* --------------------------------------------------------------------- C17
\* q occurs in the name, letter case aside
ContainsNoCase(n, q) ==
  \E start \in 0..(Len(n) - Len(q)) :
    \A k \in 1..Len(q) : Lower(q[k]) = Lower(n[start + k])

\* process 1 has answered a search with its results
SearchAnswered ==
  /\ pr[1].op = "searchNodes"
  /\ pr[1].pc = "done"
  /\ pr[1].res = "OK"

\* C17: a search returns exactly the requester's live nodes whose name contains
\* q as a case-insensitive substring, of the given type when the type is file
\* or folder; a node of the requester whose name does not contain q is never in
\* the result.
C17_SearchByName ==
  SearchAnswered =>
    pr[1].snap =
      {k \in Ids : /\ nodes[k].owner_id = pr[1].user
                   /\ nodes[k].deleted_at = Null
                   /\ ContainsNoCase(nodes[k].name, pr[1].name)
                   /\ pr[1].body[1] \in {"file", "folder"}
                        => nodes[k].type = pr[1].body[1]}

\* --------------------------------------------------------------------- C18
\* the owner's grant request on a node of the handler's type goes on to the
\* insert with one row per entry, each for this node and granted by the owner
GrantPrepared(u, i, us) ==
  /\ pr'[1].pc = "insert"
  /\ Len(pr'[1].body) = Len(us)
  /\ \A k \in 1..Len(us) :
       /\ pr'[1].body[k].node_id = i
       /\ pr'[1].body[k].granted_by = u
       /\ pr'[1].body[k].shared_with = us[k].user_id
       /\ pr'[1].body[k].permission = us[k].permission

\* the grant request of an account that does not own the node is refused
GrantRefused ==
  /\ pr'[1].pc = "done"
  /\ pr'[1].res = "ACCESS_DENIED"
  /\ perms' = perms

GrantRequest(u, i, us) ==
  /\ shareFile_fetch(1, u, i, us) => nodes[i].type = "file"
  /\ shareFolder_fetch(1, u, i, us) => nodes[i].type = "folder"
  /\ shareFile_fetch(1, u, i, us) \/ shareFolder_fetch(1, u, i, us)

GrantStep ==
  /\ \A u \in Users, i \in Ids, us \in UsersArrays \ {<<>>} :
       GrantRequest(u, i, us) =>
         IF nodes[i].owner_id = u THEN GrantPrepared(u, i, us) ELSE GrantRefused
  /\ (pr[1].op \in {"shareFile", "shareFolder"} /\ pr[1].pc = "insert"
        /\ pr'[1].pc = "done") =>
       /\ pr'[1].res = "CREATED"
       /\ perms' = perms \o pr[1].body
       /\ nodes' = nodes

\* C18: a grant by the node's owner appends exactly one permission row per
\* entry, each with node_id the node and granted_by the owner, also for an
\* entry whose (node_id, shared_with) pair is already granted; a grant by an
\* account that does not own the node is answered ACCESS_DENIED and appends no
\* row.
C18_GrantInsertsPerEntry == [][GrantStep]_vars

\* a grant has been answered and the table holds two rows for one pair
C18_PairGrantedTwice ==
  /\ pr[1].op \in {"shareFile", "shareFolder"}
  /\ pr[1].pc = "done"
  /\ pr[1].res = "CREATED"
  /\ \E j, k \in 1..Len(perms) :
       /\ j < k
       /\ perms[j].node_id = perms[k].node_id
       /\ perms[j].shared_with = perms[k].shared_with

\* --------------------------------------------------------------------- C19
\* process 1 answers, in this step, an update or a removal of grant k that a
\* signed-in account asked for with all its arguments
GrantChangeAnswered ==
  /\ pr'[1].op \in {"updateFilePermissions", "removeFilePermission"}
  /\ pr[1].pc # "done"
  /\ pr'[1].pc = "done"
  /\ pr'[1].res # "VALIDATION_ERROR"

\* the requester owns the node and the grant is a grant on that node
OwnsGrant(u, i, k) ==
  /\ nodes[i].owner_id = u
  /\ k \in 1..Len(perms)
  /\ perms[k].live
  /\ perms[k].node_id = i

\* exactly grant k is changed (update) or removed (removal)
OnlyGrantChanged(k) ==
  /\ Len(perms') = Len(perms)
  /\ \A j \in 1..Len(perms) : j # k => perms'[j] = perms[j]
  /\ IF pr'[1].op = "removeFilePermission"
       THEN ~perms'[k].live
       ELSE /\ perms'[k].live
            /\ perms'[k].permission = pr[1].body[1]
            /\ perms'[k].node_id = perms[k].node_id
            /\ perms'[k].shared_with = perms[k].shared_with

GrantChangeStep ==
  /\ GrantChangeAnswered =>
       IF OwnsGrant(pr'[1].user, pr'[1].id, pr'[1].target)
         THEN pr'[1].res = "OK" /\ OnlyGrantChanged(pr'[1].target)
         ELSE /\ pr'[1].res \in {"ACCESS_DENIED", "PERMISSION_NOT_FOUND"}
              /\ perms' = perms
  /\ (pr'[1].op \in {"updateFilePermissions", "removeFilePermission"}
        /\ pr'[1].pc # "done") => perms' = perms

\* C19: an update or a removal of a grant succeeds and changes or removes
\* exactly that grant whenever the requester owns the node and the grant is on
\* that node, a file or a folder; otherwise it is answered ACCESS_DENIED or
\* PERMISSION_NOT_FOUND and no grant is changed or removed.
C19_GrantChanged == [][GrantChangeStep]_vars

\* --------------------------------------------------------------------- C20
\* every row that carries a deleted_at carries one after the step
StaysTrashed ==
  \A i \in Ids :
    nodes[i].deleted_at # Null =>
      /\ i \in 1..Len(nodes')
      /\ nodes'[i].deleted_at # Null

\* C20: the deletion status of a node only moves from active to trashed: once
\* deleted_at is set, no step of rename, move, copy, soft delete, createFolder,
\* upload, grant or star sets it back to null.
C20_TrashedIsTerminal == [][StaysTrashed]_vars

\* a trashed file has been renamed
C20_TrashedRenamed ==
  /\ pr[1].op = "renameFile"
  /\ pr[1].pc = "done"
  /\ pr[1].res = "OK"
  /\ nodes[pr[1].id].deleted_at # Null
  /\ nodes[pr[1].id].updated_at # Null

\* --------------------------------------------------------------------- C21
\* in this step process 1 takes up a soft delete of a trashed node, asked for
\* by the node's owner through the handler of the node's type
TrashedAgainRequest ==
  /\ pr[1].pc = "idle"
  /\ pr'[1].op \in {"softDeleteFile", "softDeleteFolder"}
  /\ pr'[1].user \in Users
  /\ Found(pr'[1].id)
  /\ nodes[pr'[1].id].owner_id = pr'[1].user
  /\ nodes[pr'[1].id].type = (IF pr'[1].op = "softDeleteFile" THEN "file" ELSE "folder")
  /\ nodes[pr'[1].id].deleted_at # Null

\* C21: a soft delete of a node whose deleted_at is already set is answered
\* ALREADY_DELETED, and the deleted_at of the node and of all its children (of
\* every row, in fact) stays as it is.
C21_AlreadyDeleted ==
  [][TrashedAgainRequest =>
       /\ pr'[1].pc = "done"
       /\ pr'[1].res = "ALREADY_DELETED"
       /\ nodes' = nodes]_vars

\* a trashed folder that has a child has been soft-deleted again
C21_FolderTrashedAgain ==
  /\ pr[1].op = "softDeleteFolder"
  /\ pr[1].pc = "done"
  /\ pr[1].res = "ALREADY_DELETED"
  /\ \E k \in Ids : nodes[k].parent_id = pr[1].id

\* --------------------------------------------------------------------- C22
\* both requests are soft deletes of the same node and both have succeeded
BothDeleted ==
  /\ pr[1].op \in {"softDeleteFile", "softDeleteFolder"}
  /\ pr[2].op = pr[1].op
  /\ pr[2].id = pr[1].id
  /\ pr[1].pc = "done" /\ pr[1].res = "OK"
  /\ pr[2].pc = "done" /\ pr[2].res = "OK"

\* a stored deleted_at is not written over
WrittenOnce ==
  \A i \in Ids :
    nodes[i].deleted_at # Null => nodes'[i].deleted_at = nodes[i].deleted_at

\* C22: under every interleaving of two soft deletes of the same node, the
\* node's deleted_at is written at most once (the value first stored is never
\* overwritten by the other call) and at most one of the two calls succeeds.
C22_DeletedOnce == [][WrittenOnce /\ ~BothDeleted']_vars

\* --------------------------------------------------------------------- C23
\* C23: in every reachable state, also those reached by interleaving the lookup
\* and the insert of two createPublicLink calls on one node, the public_links
\* table holds at most one row per node_id.
C23_OneLinkPerNode ==
  \A i \in Ids : Cardinality(LinkRows(i)) <= 1

\* --------------------------------------------------------------------- C24
\* C24: in every reachable state, also those reached by interleaving the lookup
\* and the insert of two star calls of one account on one file, the stars table
\* holds at most one row per (account, file).
C24_OneStarPerPair ==
  \A u \in Users, i \in Ids : Cardinality(StarRows(u, i)) <= 1

\* --------------------------------------------------------------------- C25
\* C25: whenever an unstar of (account, file) is answered with success, no
\* stars row for that pair remains, whatever rows the table held, several rows
\* for the pair included.
C25_UnstarLeavesNoRow ==
  [][\A p \in Procs :
       (/\ pr'[p].op = "removeFileFromStarred"
        /\ pr[p].pc # "done"
        /\ pr'[p].pc = "done"
        /\ pr'[p].res = "OK")
       => ~\E k \in 1..Len(stars') :
              /\ stars'[k].live
              /\ stars'[k].user_id = pr'[p].user
              /\ stars'[k].file_id = pr'[p].id]_vars

\* --------------------------------------------------------------------- C26
\* Two runs that differ only in the grant rows are compared step by step. While
\* connection 2 adds grant rows and connection 1 is idle or in the middle of a
\* request, every step connection 1 can take next is taken in the state before
\* and in the state after the rows are added, two states that differ in nothing
\* but these rows; the step must end the same way in both. Every operation of
\* the routers is entered, by either account and without an identity, on every
\* id there is and on a missing one.

EntryOps ==
  {"createFolder", "uploadFile", "copyFile", "moveFile", "moveFolder",
   "softDeleteFile", "softDeleteFolder", "markFileAsStarred",
   "removeFileFromStarred", "generatePublicLink", "renameFile", "renameFolder",
   "getFolderContents", "downloadFile", "getFileMetadata", "shareFile",
   "shareFolder", "getFilePermissions", "updateFilePermissions",
   "removeFilePermission", "generateSignedUrl", "accessPublicResource",
   "uploadFileChunk", "completeChunkUpload", "listFiles", "listFolders",
   "searchNodes"}

\* the operations that take no node id
Unaddressed ==
  {"uploadFile", "uploadFileChunk", "completeChunkUpload", "listFiles",
   "listFolders", "searchNodes"}

\* connection p takes up a request of operation o by u on i (the id, the
\* parent of a new folder, or the token of a link)
Enter(p, o, u, i) ==
  CASE o = "createFolder" -> createFolder(p, u, <<"b">>, i)
    [] o = "uploadFile" -> uploadFile_put(p, u, File1)
    [] o = "copyFile" -> copyFile_fetch(p, u, i, Null)
    [] o = "moveFile" -> \E t \in FirstNode : moveFile_fetchFile(p, u, i, t)
    [] o = "moveFolder" -> \E t \in FirstNode : moveFolder_fetchFolder(p, u, i, t)
    [] o = "softDeleteFile" -> softDeleteFile_fetch(p, u, i)
    [] o = "softDeleteFolder" -> softDeleteFolder_fetch(p, u, i)
    [] o = "markFileAsStarred" -> markFileAsStarred_fetch(p, u, i)
    [] o = "removeFileFromStarred" -> removeFileFromStarred_fetch(p, u, i)
    [] o = "generatePublicLink" -> generatePublicLink_fetch(p, u, i)
    [] o = "renameFile" -> renameFile_fetch(p, u, i, <<"b">>)
    [] o = "renameFolder" -> renameFolder_fetch(p, u, i, <<"b">>)
    [] o = "getFolderContents" -> getFolderContents_fetchFolder(p, u, i)
    [] o = "downloadFile" -> downloadFile(p, u, i)
    [] o = "getFileMetadata" -> getFileMetadata(p, u, i)
    [] o = "shareFile" -> shareFile_fetch(p, u, i, OneEntry)
    [] o = "shareFolder" -> shareFolder_fetch(p, u, i, OneEntry)
    [] o = "getFilePermissions" -> getFilePermissions_fetch(p, u, i)
    [] o = "updateFilePermissions" -> updateFilePermissions_fetch(p, u, i, 1, "read")
    [] o = "removeFilePermission" -> removeFilePermission_fetch(p, u, i, 1)
    [] o = "generateSignedUrl" -> generateSignedUrl_fetch(p, u, i)
    [] o = "accessPublicResource" -> accessPublicResource_lookup(p, i)
    [] o = "uploadFileChunk" -> uploadFileChunk(p, 1, 1, Key1, 7)
    [] o = "completeChunkUpload" ->
         completeChunkUpload_complete(p, u, 1, Key1, <<PartOf(1)>>, <<"b">>, File2)
    [] o = "listFiles" -> listFiles(p, u, Null, Null)
    [] o = "listFolders" -> listFolders(p, u, Null, Null)
    [] o = "searchNodes" -> searchNodes(p, u, <<"A">>, "")

\* the request of connection p goes on after an await, any await but the three
\* at which the grants are the subject of the operation
Continue(p) ==
  \/ uploadFile_insert(p) \/ copyFile_insert(p)
  \/ moveFile_fetchFolder(p) \/ moveFile_update(p)
  \/ moveFolder_fetchTarget(p) \/ moveFolder_fetchChildren(p) \/ moveFolder_update(p)
  \/ softDeleteFile_update(p)
  \/ softDeleteFolder_updateFolder(p) \/ softDeleteFolder_updateChildren(p)
  \/ markFileAsStarred_lookup(p) \/ markFileAsStarred_insert(p)
  \/ removeFileFromStarred_lookup(p) \/ removeFileFromStarred_delete(p)
  \/ generatePublicLink_lookup(p) \/ generatePublicLink_insert(p)
  \/ renameFile_update(p) \/ renameFolder_update(p)
  \/ getFolderContents_fetchContents(p)
  \/ downloadFile_stream(p)
  \/ shareFile_insert(p) \/ shareFolder_insert(p)
  \/ removeFilePermission_delete(p)
  \/ generateSignedUrl_sign(p)
  \/ accessPublicResource_fetchNode(p) \/ accessPublicResource_sign(p)
  \/ completeChunkUpload_insert(p)

\* the lookup of the grant named in an update or a removal, and the update of
\* the row found
GrantLookup(p) ==
  \/ updateFilePermissions_check(p)
  \/ updateFilePermissions_update(p)
  \/ removeFilePermission_check(p)

ContinueOrLookup(p) == Continue(p) \/ GrantLookup(p)

\* the values the locals of a handler and the columns of the tables can hold
Codes ==
  {"", "ACCESS_DENIED", "ALREADY_DELETED", "CHUNK_MISSING", "CHUNK_UPLOAD_FAILED",
   "CREATED", "DB_FETCH_FAILED", "DB_INSERT_FAILED", "DB_QUERY_FAILED",
   "DB_UPDATE_FAILED", "ECONNRESET", "FILE_MISSING", "FILE_NOT_FOUND",
   "FOLDER_NOT_FOUND", "INVALID_MOVE", "INVALID_NODE_TYPE", "INVALID_TARGET",
   "LINK_NOT_FOUND", "OK", "PERMISSION_NOT_FOUND", "RESOURCE_NOT_FOUND",
   "RangeError", "TARGET_FOLDER_NOT_FOUND", "UNAUTHORIZED",
   "UPLOAD_COMPLETE_FAILED", "VALIDATION_ERROR", "SIGNED_URL_FAILED"}
Awaits ==
  {"idle", "done", "check", "delete", "fetchChildren", "fetchContents",
   "fetchFolder", "fetchNode", "fetchTarget", "insert", "lookup", "select",
   "sign", "stream", "update", "updateChildren", "updateFolder"}
Numbers == 0..(MaxNodes + MaxPerms + MaxStars + MaxLinks + MaxTime)
NamesHeld == {NoName, <<"a">>, <<"b">>, <<"A">>} \cup {nodes[k].name : k \in Ids}
NamesWritten == NamesHeld \cup {n \o Suffix : n \in NamesHeld}
PathsHeld ==
  {NoPath, Key1} \cup objects \cup {nodes[k].path : k \in Ids}
    \cup {ObjectKey(u, now, n) : u \in Requesters, n \in NamesHeld}
PartsHeld == uploads \cup StorePart(1, Key1, 1, 7)
GrantsAsked ==
  {permissionEntries(us, i, u) :
     us \in GrantArrays \cup {OneEntry}, i \in 1..MaxNodes, u \in Users}

\* the values local f of the handler of operation o can hold
ReqValues(f, o) ==
  CASE f = "op" -> {o}
    [] f = "pc" -> Awaits
    [] f = "res" -> Codes
    [] f = "user" -> Requesters
    [] f \in {"id", "target", "out"} -> 0..(MaxNodes + 1)
    [] f = "ts" -> {Null, now}
    [] f = "name" -> NamesHeld
    [] f = "file" -> {NoFile, File1, File2}
    [] f = "key" ->
         {NoPath} \cup
         CASE o = "uploadFile" ->
                {ObjectKey(u, now, File1.originalname) : u \in Requesters}
           [] o \in {"uploadFileChunk", "completeChunkUpload"} -> {Key1}
           [] o \in {"downloadFile", "generateSignedUrl", "accessPublicResource"} ->
                {nodes[k].path : k \in Ids}
           [] OTHER -> {}
    [] f = "snap" ->
         {{}} \cup
         CASE o = "copyFile" -> {{nodes[k]} : k \in Ids}
           [] o \in {"removeFileFromStarred", "listFiles", "listFolders",
                     "searchNodes"} -> SUBSET (1..MaxNodes)
           [] OTHER -> {}
    [] f = "body" ->
         {<<>>} \cup
         CASE o \in {"shareFile", "shareFolder"} -> GrantsAsked
           [] o = "updateFilePermissions" -> {<<"read">>, <<"write">>}
           [] o = "searchNodes" -> {<<t>> : t \in TypeParams}
           [] o = "moveFolder" -> {<<"childError">>}
           [] o = "completeChunkUpload" -> {<<PartOf(1)>>}
           [] o \in {"listFiles", "listFolders"} ->
                {<<c, DefaultPage, DefaultLimit, CeilDiv(c, DefaultLimit)>> :
                   c \in 0..MaxNodes}
           [] o = "getFolderContents" ->
                UNION {Ordered(Contents(u, i)) : u \in Users, i \in 0..MaxNodes}
           [] OTHER -> {}

\* the rows the nodes, links and stars tables can hold
Kinds == {"", "file", "folder", "text", "bin"}
NodesHeld ==
  [owner_id : Requesters, type : Kinds, name : NamesWritten, parent_id : Numbers,
   deleted_at : Numbers, updated_at : Numbers, path : PathsHeld,
   size_bytes : Numbers, mime_type : Kinds]
LinksHeld == [node_id : Numbers, token : Numbers, owner_id : Requesters]
StarsHeld == [user_id : Requesters, file_id : Numbers, live : BOOLEAN]

\* all that a step of connection p leaves behind: the answer and whatever else
\* the request holds for its later steps, the tables other than the grants,
\* the store, the server process and the clock, the grant rows it added and
\* the grant rows it wrote
Outcome(p) ==
  [req |-> pr'[p], nodes |-> nodes', links |-> links', stars |-> stars',
   objects |-> objects', uploads |-> uploads', server |-> server', now |-> now',
   added |-> SubSeq(perms', Len(perms) + 1, Len(perms')),
   written |-> {k \in 1..Len(perms) : perms'[k] # perms[k]}]

\* the outcomes a step of operation o can have
OutcomeValues(o) ==
  [req : [op : ReqValues("op", o), pc : ReqValues("pc", o),
          user : ReqValues("user", o), id : ReqValues("id", o),
          target : ReqValues("target", o), name : ReqValues("name", o),
          res : ReqValues("res", o), ts : ReqValues("ts", o),
          snap : ReqValues("snap", o), out : ReqValues("out", o),
          file : ReqValues("file", o), key : ReqValues("key", o),
          body : ReqValues("body", o)],
   nodes : Seq(NodesHeld), links : Seq(LinksHeld), stars : Seq(StarsHeld),
   objects : SUBSET PathsHeld, uploads : SUBSET PartsHeld,
   server : {server, uncaughtException}, now : {now},
   added : GrantsAsked \cup {<<>>}, written : SUBSET (1..MaxPerms)]

\* the step A of connection 1 has the same outcomes taken before and taken
\* after this step: none of those it can have afterwards is other than the
\* outcomes W it can have now (an outcome outside OutcomeValues counts as
\* other), and none of those it can have now is other than the outcomes it can
\* have afterwards
SameOutcome(A(_), o) ==
  /\ \A W \in {{w \in OutcomeValues(o) : ENABLED (A(1) /\ Outcome(1) = w)}} :
       ~(ENABLED (A(1) /\ Outcome(1) \notin W))'
  /\ \A W \in {{w \in OutcomeValues(o) : (ENABLED (A(1) /\ Outcome(1) = w))'}} :
       ~ENABLED (A(1) /\ Outcome(1) \notin W)

\* this step changes grant rows and nothing else that connection 1 or the
\* tables hold
GrantsChange ==
  /\ perms' # perms
  /\ pr'[1] = pr[1]
  /\ UNCHANGED <<nodes, links, stars, objects, uploads, now, server>>

\* ... and every row it adds or writes names account u
Naming(u) ==
  \A k \in 1..Len(perms') :
    (k > Len(perms) \/ perms'[k] # perms[k]) => perms'[k].shared_with = u

\* the request in flight on connection 1 goes on in the same way (a share can
\* take its insert only while the model's grants table has room for it)
StepSame(A(_)) ==
  /\ (ENABLED A(1))' => ENABLED A(1)
  /\ ENABLED A(1) => \/ (ENABLED A(1))'
                     \/ pr[1].op \in {"shareFile", "shareFolder"}
  /\ (ENABLED A(1) /\ (ENABLED A(1))') => SameOutcome(A, pr[1].op)

\* a request of one of the requesters us that enters on the idle connection 1
\* is taken up in the same way
EntrySame(us) ==
  pr[1].pc = "idle" =>
    \A o \in EntryOps, u \in us, i \in 1..(Len(nodes) + 1) :
      (o \in Unaddressed => i = 1) =>
        LET A(p) == Enter(p, o, u, i) IN
        /\ (ENABLED A(1)) = (ENABLED A(1))'
        /\ ENABLED A(1) => SameOutcome(A, o)

\* no step of any operation reads the grants, but for the listing and for
\* the lookup in an update or a removal and the update after it
GrantsUnread ==
  GrantsChange => StepSame(Continue) /\ EntrySame(Requesters)

\* whatever grants name a requester, each step of each of its operations but
\* the listing goes the same way
HoldingUnread ==
  \A u \in Users :
    (GrantsChange /\ Naming(u)) =>
      /\ pr[1].user = u => StepSame(ContinueOrLookup)
      /\ EntrySame({u})

\* an update or a removal gets to its lookup only with an identity and
\* arguments that pass validation, on a file of the requester; the lookup
\* answers PERMISSION_NOT_FOUND exactly if no grant of that id is on that file,
\* whoever the grant names, and writes nothing
GrantLookupByOwner ==
  /\ (/\ Ready(1)
      /\ pr'[1].op \in {"updateFilePermissions", "removeFilePermission"}
      /\ pr'[1].pc = "check")
     => /\ Found(pr'[1].id)
        /\ nodes[pr'[1].id].type = "file"
        /\ nodes[pr'[1].id].owner_id = pr'[1].user
        /\ pr'[1].user \in Users
        /\ pr'[1].target # Null
  /\ (/\ pr[1].op \in {"updateFilePermissions", "removeFilePermission"}
      /\ pr[1].pc = "check"
      /\ pr'[1] # pr[1])
     => /\ pr'[1].res = "PERMISSION_NOT_FOUND"
             <=> ~\E k \in 1..Len(perms) : /\ k = pr[1].target
                                           /\ perms[k].live
                                           /\ perms[k].node_id = pr[1].id
        /\ pr'[1].res # "PERMISSION_NOT_FOUND"
             => pr'[1].pc = (IF pr[1].op = "updateFilePermissions"
                               THEN "update" ELSE "delete")
        /\ UNCHANGED <<nodes, perms, links, stars, objects, uploads, server>>

\* The answers below are written without the permissions table: a request that
\* is answered as they say is answered the same way whatever grants name the
\* requester.

\* a request on a node of another account: refused, by the type of the node
NonOwnerOblivious ==
  NonOwnerRequest =>
    Refused(IF TypeServed(pr'[1].op, pr'[1].id) THEN "ACCESS_DENIED"
            ELSE "INVALID_NODE_TYPE")

\* a download or a metadata read of an own node: the metadata read is served;
\* the download goes on to its stream, and is served when the store holds the
\* object of the row's path; without one the process ends
OwnerServed ==
  /\ (/\ Ready(1)
      /\ pr'[1].op \in UntypedOps
      /\ Found(pr'[1].id)
      /\ nodes[pr'[1].id].owner_id = pr'[1].user)
     => /\ IF pr'[1].op = "downloadFile"
             THEN pr'[1].pc = "stream" /\ pr'[1].key = nodes[pr'[1].id].path
             ELSE pr'[1].pc = "done" /\ pr'[1].res = "OK"
        /\ UNCHANGED <<nodes, perms, links, stars, objects, uploads, server>>
  /\ (At(1, "downloadFile", "stream") /\ pr'[1] # pr[1])
     => /\ pr'[1].pc = "done"
        /\ IF pr[1].key \in objects
             THEN pr'[1].res = "OK" /\ server' = server
             ELSE pr'[1].res = "ECONNRESET" /\ server' = uncaughtException
        /\ UNCHANGED <<nodes, perms, links, stars, objects, uploads>>

\* a search that is answered holds the requester's own live nodes, of the type
\* when it is given, and no other node
SearchOblivious ==
  (/\ Ready(1)
   /\ pr'[1].op = "searchNodes"
   /\ pr'[1].res = "OK")
  => /\ pr'[1].snap =
          {k \in Ids : /\ nodes[k].owner_id = pr'[1].user
                       /\ nodes[k].deleted_at = Null
                       /\ pr'[1].body[1] \in {"file", "folder"}
                            => nodes[k].type = pr'[1].body[1]}
     /\ UNCHANGED <<nodes, perms, links, stars, objects, uploads>>

StepRequester == IF pr[1].pc = "idle" THEN pr'[1].user ELSE pr[1].user

\* C27: no step of a request of account R changes a field of a node whose
\* owner is not R, the deleted_at included: rename, move, soft delete with the
\* cascade of a folder, and copy write only rows owned by R (a copy adds a row
\* owned by R).
C27_OthersNodesUntouched ==
  [][/\ \A i \in Ids : nodes[i].owner_id # StepRequester => nodes'[i] = nodes[i]
     /\ \A i \in 1..Len(nodes') : i \notin Ids => nodes'[i].owner_id = StepRequester]_vars

\* a folder has been soft-deleted over a live child that another account owns
C27_ForeignChildSpared ==
  /\ pr[1].op = "softDeleteFolder"
  /\ pr[1].pc = "done"
  /\ pr[1].res = "OK"
  /\ \E k \in Ids : /\ nodes[k].parent_id = pr[1].id
                    /\ nodes[k].owner_id # pr[1].user
                    /\ nodes[k].deleted_at = Null

\* --------------------------------------------------------------------- C28
\* the rows of the step's pre-state differ after the step in these fields of
\* these rows at most
OnlyWritten(rows, fields) ==
  /\ Len(nodes') >= Len(nodes)
  /\ \A i \in Ids :
       /\ i \notin rows => nodes'[i] = nodes[i]
       /\ \A f \in DOMAIN nodes[i] : f \notin fields => nodes'[i][f] = nodes[i][f]

\* what the step of process 1 may write, by the await the request stands at
FrameOfStep ==
  IF pr[1].op \in {"renameFile", "renameFolder"} /\ pr[1].pc = "update"
    THEN OnlyWritten({pr[1].id}, {"name", "updated_at"})
  ELSE IF pr[1].op \in {"moveFile", "moveFolder"} /\ pr[1].pc = "update"
    THEN OnlyWritten({pr[1].id}, {"parent_id", "updated_at"})
  ELSE IF \/ pr[1].op = "softDeleteFile" /\ pr[1].pc = "update"
          \/ pr[1].op = "softDeleteFolder" /\ pr[1].pc = "updateFolder"
    THEN OnlyWritten({pr[1].id}, {"deleted_at"})
  ELSE IF pr[1].op = "softDeleteFolder" /\ pr[1].pc = "updateChildren"
    THEN OnlyWritten({k \in Ids : nodes[k].parent_id = pr[1].id}, {"deleted_at"})
  ELSE OnlyWritten({}, {})

\* C28: the id, owner_id and type of a node never change after its creation; a
\* rename writes only name and updated_at, a move only parent_id and
\* updated_at, a soft delete only deleted_at, each on the targeted node alone
\* (and, for a folder's soft delete, on its children).
C28_FrameOfWrites ==
  [][/\ FrameOfStep
     /\ \A i \in Ids : /\ nodes'[i].owner_id = nodes[i].owner_id
                       /\ nodes'[i].type = nodes[i].type]_vars

\* a folder has been moved: it carries the new parent and the time of the move
C28_FolderMoved ==
  /\ pr[1].op = "moveFolder"
  /\ pr[1].pc = "done"
  /\ pr[1].res = "OK"
  /\ nodes[pr[1].id].parent_id = pr[1].target
  /\ nodes[pr[1].id].updated_at # Null

\* --------------------------------------------------------------------- C29
\* C29: every node that a softDeleteFolder call stamps carries exactly the
\* deleted_at of the folder itself, and a child that was trashed before the
\* call keeps its earlier deleted_at.
C29_CascadeStampsOneTime ==
  [][(pr[1].op = "softDeleteFolder" /\ pr[1].pc \in {"updateFolder", "updateChildren"})
       => \A i \in Ids :
            IF nodes[i].deleted_at # Null
              THEN nodes'[i].deleted_at = nodes[i].deleted_at
              ELSE nodes'[i].deleted_at \in {Null, nodes'[pr[1].id].deleted_at}]_vars

\* a folder has been soft-deleted with one child it stamped and one child that
\* was trashed at an earlier time
C29_EarlierChildKept ==
  /\ pr[1].op = "softDeleteFolder"
  /\ pr[1].pc = "done"
  /\ pr[1].res = "OK"
  /\ \E j, k \in Ids :
       /\ nodes[j].parent_id = pr[1].id
       /\ nodes[k].parent_id = pr[1].id
       /\ nodes[j].deleted_at = nodes[pr[1].id].deleted_at
       /\ nodes[k].deleted_at # Null
       /\ nodes[k].deleted_at < nodes[pr[1].id].deleted_at

\* --------------------------------------------------------------------- C30
\* a completeUpload request that lacks its uploadId, key or parts is answered
\* VALIDATION_ERROR and reaches neither the object store nor the nodes table
IncompleteRefused ==
  \A u \in {Mover, NoUser}, i \in UploadIds, key \in {NoPath, Key1},
     parts \in PartLists, n \in {<<" ">>, <<"b">>} :
    (/\ completeChunkUpload_complete(1, u, i, key, parts, n, File2)
     /\ (i = Null \/ key = NoPath \/ parts = NoParts))
    => /\ pr'[1].pc = "done"
       /\ pr'[1].res = "VALIDATION_ERROR"
       /\ UNCHANGED <<objects, uploads, nodes>>

\* a step of a completeUpload request
CompleteStep ==
  \/ Ready(1) /\ pr'[1].op = "completeChunkUpload"
  \/ pr[1].op = "completeChunkUpload" /\ pr[1].pc = "insert"

\* C30: completeUpload fails with VALIDATION_ERROR, calling neither
\* collaborator, when uploadId, key or parts is missing; a failure of the
\* multipart-complete gives UPLOAD_COMPLETE_FAILED and no node; a node is
\* inserted only by the step that follows a successful multipart-complete (the
\* object of the key is assembled); and a failure of the insert gives
\* UPLOAD_COMPLETE_FAILED too.
C30_CompleteFailures ==
  [][/\ IncompleteRefused
     /\ CompleteStep =>
          /\ pr'[1].pc = "done" =>
               pr'[1].res \in {"VALIDATION_ERROR", "UPLOAD_COMPLETE_FAILED", "CREATED"}
          /\ pr'[1].res # "CREATED" => nodes' = nodes
          /\ (Ready(1) /\ pr'[1].res = "UPLOAD_COMPLETE_FAILED")
               => UNCHANGED <<objects, uploads>>
          /\ nodes' # nodes => /\ pr[1].pc = "insert"
                               /\ pr[1].key \in objects
          /\ (pr[1].pc = "insert" /\ nodes' = nodes)
               => pr'[1].res = "UPLOAD_COMPLETE_FAILED"]_vars

\* the insert has failed after the object was assembled
C30_InsertFailed ==
  /\ pr[1].op = "completeChunkUpload"
  /\ pr[1].pc = "done"
  /\ pr[1].res = "UPLOAD_COMPLETE_FAILED"
  /\ pr[1].key \in objects
  /\ \A k \in Ids : nodes[k].path # pr[1].key

\* --------------------------------------------------------------------- C31
\* the nodes that completions of the upload session of Key1 have created (the
\* requests of this specification name one uploadId)
NodesOfUpload == {k \in Ids : nodes[k].path = Key1}

\* C31: completeUpload creates a node only for an uploadId that has had a chunk
\* acknowledged, and once an uploadId has been finalized a further
\* completeUpload with the same uploadId creates no second node.
C31_SessionLifecycle ==
  [][/\ (Ready(1) /\ pr'[1].op = "completeChunkUpload" /\ pr'[1].pc = "insert")
          => PartsOf(pr'[1].id, pr'[1].key) # {}
     /\ Len(nodes') > Len(nodes) => Cardinality(NodesOfUpload') <= 1]_vars

\* --------------------------------------------------------------------- C32
\* a chunk request and its answer
ChunkStep(uploadId, partNumber, key, chunk) ==
  uploadFileChunk(1, uploadId, partNumber, key, chunk) =>
    /\ nodes' = nodes
    /\ IF uploadId = Null \/ partNumber = Null \/ key = NoPath
         THEN pr'[1].res = "VALIDATION_ERROR" /\ uploads' = uploads
       ELSE IF chunk = Null
         THEN pr'[1].res = "CHUNK_MISSING" /\ uploads' = uploads
       ELSE \/ pr'[1].res = "OK"
               /\ uploads' = StorePart(uploadId, key, partNumber, chunk)
            \/ pr'[1].res = "CHUNK_UPLOAD_FAILED" /\ uploads' = uploads

\* C32: putChunk fails with VALIDATION_ERROR when uploadId, partNumber or key
\* is missing (whatever the payload), with CHUNK_MISSING when no bytes are
\* attached, and with CHUNK_UPLOAD_FAILED when the part upload fails; in every
\* outcome, success included, the nodes are left as they were.
C32_ChunkOutcomes ==
  [][\A i \in UploadIds, n \in PartNumbers \cup {Null}, key \in {NoPath, Key1},
        c \in Chunks : ChunkStep(i, n, key, c)]_vars

\* a chunk request that names uploadId and partNumber was refused for its
\* missing key while the account has nodes
C32_KeyMissing ==
  /\ pr[1].op = "uploadFileChunk" /\ pr[1].res = "VALIDATION_ERROR"
  /\ pr[1].id # Null /\ pr[1].target # Null
  /\ Len(nodes) > 0

\* --------------------------------------------------------------------- C33
\* a single-shot upload is at its insert: the put has stored the object
AtUploadInsert == At(1, "uploadFile", "insert")

\* C33: uploadFile issues its insert only after the put has succeeded; when
\* the insert fails the answer is DB_INSERT_FAILED, no node was created and
\* the stored object stays in the object store.
C33_InsertAfterPut ==
  [][/\ (pr'[1].op = "uploadFile" /\ Len(nodes') > Len(nodes))
          => AtUploadInsert /\ pr[1].key \in objects
     /\ (AtUploadInsert /\ Len(nodes') = Len(nodes))
          => /\ pr'[1].res = "DB_INSERT_FAILED"
             /\ nodes' = nodes
             /\ objects' = objects /\ pr[1].key \in objects'
     /\ (Ready(1) /\ pr'[1].op = "uploadFile" /\ pr'[1].pc = "done")
          => nodes' = nodes /\ objects' = objects]_vars

\* an upload was answered DB_INSERT_FAILED and its object is in the store
\* with no node pointing at it
C33_ObjectWithoutNode ==
  /\ pr[1].op = "uploadFile" /\ pr[1].res = "DB_INSERT_FAILED"
  /\ pr[1].key \in objects
  /\ \A k \in Ids : nodes[k].path # pr[1].key

\* --------------------------------------------------------------------- C34
\* the moveFolder request holds the error its select of the rows returned
HoldsChildError == pr[1].op = "moveFolder" /\ pr[1].body = <<"childError">>

\* C34: whenever a repository call made inside an operation returns an error,
\* the operation ends in a typed failure, never in success, and performs no
\* further write (here: the select of the rows in moveFolder).
C34_ErrorsEndInFailure ==
  [][/\ (~HoldsChildError /\ HoldsChildError') => pr'[1].pc = "done"
     /\ HoldsChildError => nodes' = nodes /\ pr'[1].res # "OK"]_vars

\* --------------------------------------------------------------------- C35
\* C35: in every state reachable by the operations, concurrent moves included,
\* the recursive walk of moveFolder ends: from its start the request goes on
\* either to INVALID_MOVE or to the write of parent_id.
C35_CycleCheckEnds ==
  [][\A p \in Procs :
       (At(p, "moveFolder", "fetchChildren") /\ pr'[p] # pr[p])
         => \/ pr'[p].pc = "done" /\ pr'[p].res = "INVALID_MOVE"
            \/ pr'[p].pc = "update"]_vars

\* --------------------------------------------------------------------- C36
\* one expansion: the nodes of u whose parent is i or a member of S join S
Expand(u, i, S) ==
  S \cup {j \in Ids : /\ nodes[j].owner_id = u
                      /\ (nodes[j].parent_id = i \/ nodes[j].parent_id \in S)}

\* the least fixed point of the expansion from i
RECURSIVE DescendantSet(_, _, _)
DescendantSet(u, i, S) ==
  IF Expand(u, i, S) = S THEN S ELSE DescendantSet(u, i, Expand(u, i, S))

\* no node of u is among its own descendants
AcyclicFor(u) ==
  \A i \in Ids : nodes[i].owner_id = u => i \notin DescendantSet(u, i, {})

\* C36: on every acyclic set of the actor's nodes and for every pair
\* (node_id, target), checkCircular(node_id, target) returns true exactly when
\* target is in the descendant set of node_id, the least fixed point of the
\* expansion.
C36_CheckIsDescendantSet ==
  AcyclicFor(Mover) =>
    \A i \in AnyId, t \in AnyId :
      checkCircular(ChildNodes(Mover), i, t, 0)
        = (IF t \in DescendantSet(Mover, i, {}) THEN {"true"} ELSE {"false"})

\* a move into a grandchild was refused by the walk on an acyclic set
C36_GrandchildFound ==
  /\ AcyclicFor(Mover)
  /\ pr[1].op = "moveFolder" /\ pr[1].res = "INVALID_MOVE"
  /\ Found(pr[1].id) /\ Found(pr[1].target)
  /\ pr[1].target \in DescendantSet(Mover, pr[1].id, {})
  /\ nodes[pr[1].target].parent_id # pr[1].id

\* --------------------------------------------------------------------- C37
\* C37: in every reachable state every node's name is a non-empty string:
\* no stored name is missing, empty or whitespace-only.
C37_NamesNotBlank == \A i \in Ids : ~BlankName(nodes[i].name)

\* --------------------------------------------------------------------- C38
\* C38: an operation invoked without a requester identity fails with
\* UNAUTHORIZED and writes nothing (here: completeUpload), and no node with a
\* null owner_id is ever stored.
C38_IdentityRequired ==
  [][/\ (Ready(1) /\ pr'[1].op = "completeChunkUpload" /\ pr'[1].user = NoUser)
          => /\ pr'[1].pc = "done" /\ pr'[1].res = "UNAUTHORIZED"
             /\ UNCHANGED <<nodes, objects, uploads>>
     /\ \A i \in 1..Len(nodes') : nodes'[i].owner_id # NoUser]_vars

\* --------------------------------------------------------------------- C39
\* C39: graceful shutdown runs at most once: however many SIGINT and SIGTERM
\* signals arrive and in whatever order, server.close is invoked at most once,
\* and every signal after the first changes nothing but the count of signals
\* received.
C39_ShutdownOnce ==
  [][/\ server'.closeCalls <= 1
     /\ (Len(server'.received) > Len(server.received) /\ server.received # <<>>)
          => server' = [server EXCEPT !.received = server'.received]
     /\ (server.received = <<>> /\ server'.received # <<>>)
          => server'.closeCalls = 1 /\ server'.isShuttingDown]_vars

\* both signals have arrived, three in all, while an upload was in flight
C39_SignalsRepeated ==
  /\ Len(server.received) = MaxSignals
  /\ {server.received[k] : k \in 1..Len(server.received)} = Signals
  /\ server.closeCalls = 1
  /\ pr[1].pc = "insert"
====
